---- MODULE Spec2Model ----
(***************************************************************************)
(* Memory service of kw0ntum/secondguess: the resilient context-memory     *)
(* layer (MemoryServiceImpl) with its circuit breaker, the timeout race    *)
(* around each remote call, the normalisation of backend entries and the   *)
(* filter / sort / offset / limit pipeline of retrieveMemory.              *)
(*                                                                         *)
(* Time is the wall clock in milliseconds (Date.now()).  JavaScript values *)
(* are modelled by what the code can tell apart: `undefined`, the empty    *)
(* string, a whitespace-only string, a non-string, null, an array, a plain *)
(* object, an invalid Date (NaN).                                          *)
(***************************************************************************)
EXTENDS Integers, Sequences, FiniteSets, TLC

(***************************************************************************)
(* Program constants                                                       *)
(***************************************************************************)
FAILURE_THRESHOLD == 5
RECOVERY_TIMEOUT == 60000
\* MEM0_TIMEOUT default of the memory configuration (config.timeout)
DEFAULT_TIMEOUT == 5000
\* mem0Query.limit = query.limit || 10
DEFAULT_LIMIT == 10

(***************************************************************************)
(* Bounds of the model                                                     *)
(***************************************************************************)
\* call slots: how many store / retrieve calls may be in flight at once
MaxCalls == 2
\* the clock is sampled at w * RECOVERY_TIMEOUT + s * timeout, w <= MaxWindows
MaxWindows == 1
\* ... and s <= MaxSlices
MaxSlices == 1
\* entries the backend holds at most
MaxDb == 1
\* entries the backend holds before the first call, at most
MaxSeeds == 3
MaxDeviations == 2
MaxRaw == 2

(***************************************************************************)
(* JavaScript values                                                       *)
(***************************************************************************)
\* `undefined` of a string-valued or object-valued field
Undefined == "undefined"
\* a value that is not a string (typeof v !== 'string'), e.g. a number
NonString == "<number>"
\* a whitespace-only string
Blank == "  "
\* `undefined` of a number-valued field (limit, offset, a Date)
NoNum == -2
\* the time value of an invalid Date: isNaN(d.getTime())
NaN == -1

\* a number that is no integer (1.5, NaN, Infinity)
Fraction == -3
\* Number.isInteger(n)
IsInteger(n) == n # Fraction

\* !v for the string-like values
Falsy(v) == v \in {Undefined, ""}
\* typeof v === 'string'
IsString(v) == v \notin {Undefined, NonString}
\* v.trim().length === 0
TrimEmpty(v) == v \in {"", Blank}
\* !v for input / output / metadata tokens
FalsyObj(v) == v \in {Undefined, "null"}
\* typeof v === 'object' && v !== null && !Array.isArray(v)
IsPlainObject(v) == v \notin {Undefined, "null", "array", NonString}

(***************************************************************************)
(* validateLLMCallEntry                                                    *)
(***************************************************************************)
\* a validator that tests the strings without trimming them
validateWithoutTrim(entry) ==
    IF Falsy(entry.step) \/ FalsyObj(entry.input) \/ FalsyObj(entry.output)
          \/ Falsy(entry.sessionId)
    THEN FALSE
    ELSE IF ~IsString(entry.step) THEN FALSE
    ELSE IF ~IsString(entry.sessionId) THEN FALSE
    ELSE IF ~IsPlainObject(entry.input) THEN FALSE
    ELSE IF ~IsPlainObject(entry.output) THEN FALSE
    ELSE IF entry.timestamp = NoNum THEN FALSE
    ELSE IF entry.timestamp = NaN THEN FALSE
    ELSE IF entry.userId # Undefined /\ (~IsString(entry.userId)) THEN FALSE
    ELSE IF entry.workflowType # Undefined /\ (~IsString(entry.workflowType))
         THEN FALSE
    ELSE IF entry.metadata # Undefined /\ ~IsPlainObject(entry.metadata) THEN FALSE
    ELSE TRUE

validateLLMCallEntry(entry) ==
    IF Falsy(entry.step) \/ FalsyObj(entry.input) \/ FalsyObj(entry.output)
          \/ Falsy(entry.sessionId)
    THEN FALSE
    ELSE IF ~IsString(entry.step) \/ TrimEmpty(entry.step) THEN FALSE
    ELSE IF ~IsString(entry.sessionId) \/ TrimEmpty(entry.sessionId) THEN FALSE
    ELSE IF ~IsPlainObject(entry.input) THEN FALSE
    ELSE IF ~IsPlainObject(entry.output) THEN FALSE
    \* !entry.timestamp || !(entry.timestamp instanceof Date)
    ELSE IF entry.timestamp = NoNum THEN FALSE
    ELSE IF entry.timestamp = NaN THEN FALSE
    ELSE IF entry.userId # Undefined
               /\ (~IsString(entry.userId) \/ TrimEmpty(entry.userId)) THEN FALSE
    ELSE IF entry.workflowType # Undefined
               /\ (~IsString(entry.workflowType) \/ TrimEmpty(entry.workflowType))
         THEN FALSE
    ELSE IF entry.metadata # Undefined /\ ~IsPlainObject(entry.metadata) THEN FALSE
    ELSE TRUE

(***************************************************************************)
(* validateMemoryQuery                                                     *)
(***************************************************************************)
\* a provided string filter that is not a non-blank string
BadStringFilter(v) == v # Undefined /\ (~IsString(v) \/ TrimEmpty(v))

\* a validator that takes limit 0 for no limit at all
validateRejectsZero(query) ==
    IF query.limit # NoNum /\ (query.limit <= 0 \/ ~IsInteger(query.limit)) THEN FALSE
    ELSE IF query.offset # NoNum /\ (query.offset < 0 \/ ~IsInteger(query.offset))
         THEN FALSE
    ELSE IF query.startDate # NoNum /\ query.endDate # NoNum
               /\ (query.startDate = NaN \/ query.endDate = NaN
                      \/ query.startDate > query.endDate) THEN FALSE
    ELSE IF query.startDate # NoNum /\ query.startDate = NaN THEN FALSE
    ELSE IF query.endDate # NoNum /\ query.endDate = NaN THEN FALSE
    ELSE IF BadStringFilter(query.sessionId) THEN FALSE
    ELSE IF BadStringFilter(query.userId) THEN FALSE
    ELSE IF BadStringFilter(query.workflowType) THEN FALSE
    ELSE IF BadStringFilter(query.step) THEN FALSE
    ELSE TRUE

validateMemoryQuery(query) ==
    IF query.limit # NoNum /\ (query.limit < 0 \/ ~IsInteger(query.limit)) THEN FALSE
    ELSE IF query.offset # NoNum /\ (query.offset < 0 \/ ~IsInteger(query.offset))
         THEN FALSE
    ELSE IF query.startDate # NoNum /\ query.endDate # NoNum
               /\ (query.startDate = NaN \/ query.endDate = NaN
                      \/ query.startDate > query.endDate) THEN FALSE
    ELSE IF query.startDate # NoNum /\ query.startDate = NaN THEN FALSE
    ELSE IF query.endDate # NoNum /\ query.endDate = NaN THEN FALSE
    ELSE IF BadStringFilter(query.sessionId) THEN FALSE
    ELSE IF BadStringFilter(query.userId) THEN FALSE
    ELSE IF BadStringFilter(query.workflowType) THEN FALSE
    ELSE IF BadStringFilter(query.step) THEN FALSE
    ELSE TRUE

(***************************************************************************)
(* Text on the wire: ISO timestamps and JSON message contents              *)
(***************************************************************************)
\* Date.prototype.toISOString(): millisecond precision, so the instant survives
toISOString(t) == [kind |-> "iso", t |-> t]
\* a field that is absent on the wire
NoText == [kind |-> "undefined", t |-> 0]
\* a string that is no date
JunkText == [kind |-> "junk", t |-> 0]
\* new Date(text).getTime()
NewDate(text) == IF text.kind = "iso" THEN text.t ELSE NaN

\* the object of the user message, all fields absent
NoUserData ==
    [step |-> Undefined, input |-> Undefined, sessionId |-> Undefined,
     userId |-> Undefined, workflowType |-> Undefined, timestamp |-> NoText,
     metadata |-> Undefined]
\* JSON.stringify of an object: a well-formed text that parses back to the
\* object without its undefined fields
JSONStringifyObject(obj) == [kind |-> "object", user |-> obj, value |-> Undefined]
\* JSON.stringify of the output map
JSONStringifyValue(v) == [kind |-> "value", user |-> NoUserData, value |-> v]
\* a non-empty content that is not JSON
JunkContent == [kind |-> "junk", user |-> NoUserData, value |-> Undefined]
\* JSON.parse throws a SyntaxError on it
JSONParseThrows(content) == content.kind = "junk"
\* the fields read from JSON.parse(content) of a user message
JSONParseUser(content) == IF content.kind = "object" THEN content.user ELSE NoUserData
\* a null among mem0Entry.messages: reading message.role throws a TypeError
NullMessage == [role |-> "null", content |-> JunkContent]
\* the loop over the messages throws
MessagesThrow(messages) == \E i \in 1..Len(messages) : messages[i] = NullMessage
\* JSON.parse(content) of an assistant message
JSONParseValue(content) == IF content.kind = "value" THEN content.value ELSE "obj"

(***************************************************************************)
(* storeLLMCall: the payload handed to mem0Client.add                      *)
(***************************************************************************)
NoMetadata ==
    [present |-> FALSE, step |-> Undefined, sessionId |-> Undefined,
     workflowType |-> Undefined, timestamp |-> NoText]

\* entry.userId || entry.sessionId
StoreUserId(entry) == IF Falsy(entry.userId) THEN entry.sessionId ELSE entry.userId

MemoryData(entry) ==
    [messages |->
        << [role |-> "user",
            content |-> JSONStringifyObject(
                [step |-> entry.step, input |-> entry.input,
                 sessionId |-> entry.sessionId, userId |-> entry.userId,
                 workflowType |-> entry.workflowType,
                 timestamp |-> toISOString(entry.timestamp),
                 metadata |-> entry.metadata])],
           [role |-> "assistant", content |-> JSONStringifyValue(entry.output)] >>,
     user_id |-> StoreUserId(entry),
     metadata |-> [present |-> TRUE, step |-> entry.step,
                   sessionId |-> entry.sessionId,
                   workflowType |-> entry.workflowType,
                   timestamp |-> toISOString(entry.timestamp)]]

(***************************************************************************)
(* retrieveMemory: the query handed to mem0Client.getAll                   *)
(***************************************************************************)
\* mem0Query.user_id: userId, else sessionId, else not set
QueryUserId(query) ==
    IF ~Falsy(query.userId) THEN query.userId
    ELSE IF ~Falsy(query.sessionId) THEN query.sessionId
    ELSE Undefined

\* mem0Query.limit = query.limit || 10
QueryLimit(query) ==
    IF query.limit = NoNum \/ query.limit = 0 THEN DEFAULT_LIMIT ELSE query.limit

Mem0Query(query) == [user_id |-> QueryUserId(query), limit |-> QueryLimit(query)]

(***************************************************************************)
(* parseMemoryEntry                                                        *)
(***************************************************************************)
\* the locals of parseMemoryEntry after one message of mem0Entry.messages
ParseMessage(acc, message) ==
    IF message.role = "user" /\ message.content.kind # "empty"
    THEN IF JSONParseThrows(message.content)
         THEN [acc EXCEPT !.input = "{content}"]
         ELSE LET userData == JSONParseUser(message.content) IN
              [acc EXCEPT
                 !.step = IF Falsy(userData.step) THEN acc.step ELSE userData.step,
                 !.input = IF FalsyObj(userData.input) THEN acc.input
                           ELSE userData.input,
                 !.sessionId = IF Falsy(userData.sessionId) THEN acc.sessionId
                               ELSE userData.sessionId,
                 !.userId = userData.userId,
                 !.workflowType = IF Falsy(userData.workflowType)
                                  THEN acc.workflowType
                                  ELSE userData.workflowType,
                 !.timestamp = IF userData.timestamp.kind # "undefined"
                               THEN NewDate(userData.timestamp)
                               ELSE acc.timestamp]
    ELSE IF message.role = "assistant" /\ message.content.kind # "empty"
    THEN IF JSONParseThrows(message.content)
         THEN [acc EXCEPT !.output = "{content}"]
         ELSE [acc EXCEPT !.output = JSONParseValue(message.content)]
    ELSE acc

\* a parser that stamps every entry with the time of the read
parseStampsNow(mem0Entry, clock) ==
    IF mem0Entry.id = 0 THEN << >>
    ELSE LET metadata == mem0Entry.metadata
         IN << [id |-> mem0Entry.id,
                step |-> IF Falsy(metadata.step) THEN "unknown" ELSE metadata.step,
                input |-> "{}", output |-> "{}",
                sessionId |-> IF Falsy(metadata.sessionId) THEN ""
                              ELSE metadata.sessionId,
                userId |-> Undefined, workflowType |-> metadata.workflowType,
                timestamp |-> clock, mem0Metadata |-> metadata] >>

\* a parser without the check for a missing id
parseWithoutIdCheck(mem0Entry, clock) ==
    LET metadata == mem0Entry.metadata
    IN << [id |-> mem0Entry.id,
           step |-> IF Falsy(metadata.step) THEN "unknown" ELSE metadata.step,
           input |-> "{}", output |-> "{}",
           sessionId |-> IF Falsy(metadata.sessionId) THEN "" ELSE metadata.sessionId,
           userId |-> Undefined, workflowType |-> metadata.workflowType,
           timestamp |-> IF metadata.timestamp.kind # "undefined"
                         THEN NewDate(metadata.timestamp) ELSE clock,
           mem0Metadata |-> metadata] >>

\* a parser that gives up on an entry whose message content is not JSON
parseDropsMalformed(mem0Entry, clock) ==
    IF mem0Entry.id = 0 THEN << >>
    ELSE IF MessagesThrow(mem0Entry.messages) THEN << >>
    ELSE IF \E i \in 1..Len(mem0Entry.messages) :
               JSONParseThrows(mem0Entry.messages[i].content) THEN << >>
    ELSE LET metadata == mem0Entry.metadata
         IN << [id |-> mem0Entry.id,
                step |-> IF Falsy(metadata.step) THEN "unknown" ELSE metadata.step,
                input |-> "{}", output |-> "{}",
                sessionId |-> IF Falsy(metadata.sessionId) THEN ""
                              ELSE metadata.sessionId,
                userId |-> Undefined, workflowType |-> metadata.workflowType,
                timestamp |-> IF metadata.timestamp.kind # "undefined"
                              THEN NewDate(metadata.timestamp) ELSE clock,
                mem0Metadata |-> metadata] >>

RECURSIVE ParseMessages(_, _)
ParseMessages(acc, messages) ==
    IF messages = << >> THEN acc
    ELSE ParseMessages(ParseMessage(acc, Head(messages)), Tail(messages))

\* << >> is null; clock is the `new Date()` of a missing timestamp
parseMemoryEntry(mem0Entry, clock) ==
    \* !mem0Entry || !mem0Entry.id
    IF mem0Entry.id = 0 THEN << >>
    \* catch (error) { return null }
    ELSE IF MessagesThrow(mem0Entry.messages) THEN << >>
    ELSE LET metadata == mem0Entry.metadata
             start ==
               [id |-> mem0Entry.id,
                step |-> IF Falsy(metadata.step) THEN "unknown" ELSE metadata.step,
                input |-> "{}",
                output |-> "{}",
                sessionId |-> IF Falsy(metadata.sessionId) THEN ""
                              ELSE metadata.sessionId,
                userId |-> Undefined,
                workflowType |-> metadata.workflowType,
                timestamp |-> IF metadata.timestamp.kind # "undefined"
                              THEN NewDate(metadata.timestamp) ELSE clock,
                mem0Metadata |-> metadata]
         IN << ParseMessages(start, mem0Entry.messages) >>

(***************************************************************************)
(* applyFilters                                                            *)
(***************************************************************************)
\* a < b on Dates: false when either is invalid
DateLess(a, b) == a # NaN /\ b # NaN /\ a < b

applyFilters(entry, query) ==
    IF ~Falsy(query.sessionId) /\ entry.sessionId # query.sessionId THEN FALSE
    ELSE IF ~Falsy(query.userId) /\ entry.userId # query.userId THEN FALSE
    ELSE IF ~Falsy(query.workflowType) /\ entry.workflowType # query.workflowType
         THEN FALSE
    ELSE IF ~Falsy(query.step) /\ entry.step # query.step THEN FALSE
    ELSE IF query.startDate # NoNum /\ DateLess(entry.timestamp, query.startDate)
         THEN FALSE
    ELSE IF query.endDate # NoNum /\ DateLess(query.endDate, entry.timestamp)
         THEN FALSE
    ELSE TRUE

(***************************************************************************)
(* The tail of retrieveMemory: map / filter / sort / offset / limit        *)
(***************************************************************************)
RECURSIVE ParseAndFilter(_, _, _)
\* .map(parseMemoryEntry).filter(entry !== null).filter(applyFilters)
ParseAndFilter(results, query, clock) ==
    IF results = << >> THEN << >>
    ELSE LET parsed == parseMemoryEntry(Head(results), clock)
             rest == ParseAndFilter(Tail(results), query, clock)
         IN IF parsed # << >> /\ applyFilters(parsed[1], query)
            THEN parsed \o rest ELSE rest

RECURSIVE InsertDesc(_, _)
\* x placed after every element whose timestamp is not smaller (stable)
InsertDesc(sorted, x) ==
    IF sorted = << >> THEN << x >>
    \* b.getTime() - a.getTime() > 0 moves x forward; 0 and NaN leave it behind
    ELSE IF ~DateLess(Head(sorted).timestamp, x.timestamp)
         THEN << Head(sorted) >> \o InsertDesc(Tail(sorted), x)
         ELSE << x >> \o sorted

RECURSIVE SortDesc(_)
\* entries.sort((a, b) => b.timestamp.getTime() - a.timestamp.getTime())
SortDesc(entries) ==
    IF entries = << >> THEN << >>
    ELSE InsertDesc(SortDesc(SubSeq(entries, 1, Len(entries) - 1)),
                    entries[Len(entries)])

\* entries.slice(n)
SliceFrom(entries, n) == SubSeq(entries, n + 1, Len(entries))
\* entries.slice(0, n)
SliceTo(entries, n) == SubSeq(entries, 1, IF n < Len(entries) THEN n ELSE Len(entries))

\* if (query.offset && query.offset > 0) entries = entries.slice(query.offset)
\* a slice that starts one entry early
ApplyOffsetFromOne(entries, query) ==
    IF query.offset # NoNum /\ query.offset > 0
    THEN SliceFrom(entries, query.offset - 1) ELSE entries

ApplyOffset(entries, query) ==
    IF query.offset # NoNum /\ query.offset > 0
    THEN SliceFrom(entries, query.offset) ELSE entries

\* if (query.limit && entries.length > query.limit) entries = entries.slice(0, query.limit)
ApplyLimit(entries, query) ==
    IF query.limit # NoNum /\ query.limit # 0 /\ Len(entries) > query.limit
    THEN SliceTo(entries, query.limit) ELSE entries

\* a read that gives up on the whole answer when one entry has no id
RetrieveResultAllOrNothing(mem0Results, isArray, query, clock) ==
    LET entries == IF isArray /\ \A k \in 1..Len(mem0Results) : mem0Results[k].id # 0
                   THEN ParseAndFilter(mem0Results, query, clock)
                   ELSE << >>
    IN ApplyLimit(ApplyOffset(SortDesc(entries), query), query)

\* what retrieveMemory returns for the backend's answer mem0Results
RetrieveResult(mem0Results, isArray, query, clock) ==
    LET entries == IF isArray THEN ParseAndFilter(mem0Results, query, clock)
                   ELSE << >>
    IN ApplyLimit(ApplyOffset(SortDesc(entries), query), query)

(***************************************************************************)
(* State                                                                   *)
(***************************************************************************)
VARIABLES
    config,                  \* appConfig.memory: enabled, apiKey, timeout
    sdk,                     \* the mem0ai module: "loaded", "missing", or
                             \* "throws" (loaded, its constructor throws)
    mem0Client,              \* "client" or "null"
    isEnabled,
    isHealthy,
    failureCount,
    lastFailureTime,         \* NoNum while undefined
    lastSuccessfulOperation, \* NoNum while undefined
    now,                     \* Date.now()
    calls,                   \* the store / retrieve calls, by slot
    db,                      \* what the backend holds, oldest first
    acked,                   \* entries whose storeLLMCall saw the write succeed
    streak,                  \* failed remote calls since the last successful
                             \* one, counted up to FAILURE_THRESHOLD
    observed,                \* what the last synchronous or stubbed call returned
    peak                     \* the largest number of remote calls that were
                             \* awaited at the same time so far

vars == << config, sdk, mem0Client, isEnabled, isHealthy, failureCount,
           lastFailureTime, lastSuccessfulOperation, now, calls, db, acked,
           streak, observed, peak >>

breaker == << isHealthy, failureCount, lastFailureTime, lastSuccessfulOperation >>

Calls == 1..MaxCalls

\* the instants at which the clock is sampled
ClockGrid ==
    { w * RECOVERY_TIMEOUT + s * DEFAULT_TIMEOUT : w \in 0..MaxWindows, s \in 0..MaxSlices }

\* the last sampled instant
Horizon == MaxWindows * RECOVERY_TIMEOUT + MaxSlices * DEFAULT_TIMEOUT

(***************************************************************************)
(* Inputs                                                                  *)
(***************************************************************************)
NoEntry ==
    [step |-> Undefined, input |-> Undefined, output |-> Undefined,
     sessionId |-> Undefined, userId |-> Undefined, workflowType |-> Undefined,
     timestamp |-> NoNum, metadata |-> Undefined]

NoQuery ==
    [sessionId |-> Undefined, userId |-> Undefined, workflowType |-> Undefined,
     step |-> Undefined, limit |-> NoNum, offset |-> NoNum,
     startDate |-> NoNum, endDate |-> NoNum]

\* a valid entry without the optional fields
EntryPlain ==
    [NoEntry EXCEPT !.step = "summarize", !.input = "obj", !.output = "obj",
                    !.sessionId = "S1", !.timestamp = 100]
\* a valid entry with userId and workflowType
EntryFull ==
    [EntryPlain EXCEPT !.step = "converse", !.userId = "U1",
                       !.workflowType = "wf", !.timestamp = 200,
                       !.metadata = "obj"]
\* step: '' (fails validation)
EntryEmptyStep == [EntryPlain EXCEPT !.step = ""]
\* input and output missing (fails validation)
EntryIncomplete == [EntryPlain EXCEPT !.input = Undefined, !.output = Undefined]

Entries == {EntryPlain, EntryFull, EntryEmptyStep}

QuerySession == [NoQuery EXCEPT !.sessionId = "S1"]
\* limit: -1 (fails validation)
QueryBadLimit == [QuerySession EXCEPT !.limit = -1]

\* what the backend may already hold for "S1" -------------------------------
SeedMetadata(step, workflowType, t) ==
    [present |-> TRUE, step |-> step, sessionId |-> "S1",
     workflowType |-> workflowType, timestamp |-> toISOString(t)]
\* entries as getAll lists them: id, metadata, no messages
SeedOld ==
    [id |-> 11, user_id |-> "S1", metadata |-> SeedMetadata("summarize", Undefined, 100),
     messages |-> << >>]
SeedNew ==
    [id |-> 12, user_id |-> "S1", metadata |-> SeedMetadata("converse", "wf", 200),
     messages |-> << >>]
\* an entry without id
SeedNoId == [SeedOld EXCEPT !.id = 0]
\* an entry without metadata whose messages are not JSON
SeedJunk ==
    [id |-> 13, user_id |-> "S1", metadata |-> NoMetadata,
     messages |-> << [role |-> "user", content |-> JunkContent],
                     [role |-> "assistant", content |-> JunkContent] >>]

\* an entry with the timestamp of SeedOld
SeedTwin ==
    [id |-> 14, user_id |-> "S1", metadata |-> SeedMetadata("converse", Undefined, 100),
     messages |-> << >>]
\* an entry whose metadata.timestamp is a string that is no date
SeedBadDate ==
    [SeedOld EXCEPT !.id = 15, !.metadata = [@ EXCEPT !.timestamp = JunkText]]

\* null in the place of an entry: nothing can be read from it
SeedNull == [id |-> 0, user_id |-> "S1", metadata |-> NoMetadata, messages |-> << >>]
\* an entry with id whose messages hold a null
SeedThrows ==
    [id |-> 16, user_id |-> "S1", metadata |-> SeedMetadata("summarize", Undefined, 100),
     messages |-> << NullMessage >>]
\* an entry without timestamp whose user message is not JSON and whose
\* assistant message is
SeedHalf ==
    [id |-> 17, user_id |-> "S1",
     metadata |-> [SeedMetadata("converse", Undefined, 100) EXCEPT !.timestamp = NoText],
     messages |-> << [role |-> "user", content |-> JunkContent],
                     [role |-> "assistant", content |-> JSONStringifyValue("obj")] >>]
\* an entry as storeLLMCall writes it
SeedStored == [id |-> 18, user_id |-> "S1", metadata |-> MemoryData(EntryPlain).metadata,
               messages |-> MemoryData(EntryPlain).messages]

\* answers of getAll in every shape parseMemoryEntry tells apart
RawSeeds == {SeedOld, SeedNoId, SeedJunk, SeedNull, SeedThrows, SeedHalf, SeedStored}

RECURSIVE RawSeqs(_)
RawSeqs(n) ==
    IF n = 0 THEN { << >> }
    ELSE LET shorter == RawSeqs(n - 1)
         IN shorter \cup { Append(held, seed) : held \in shorter, seed \in RawSeeds }

Seeds == {SeedOld, SeedNew, SeedNoId, SeedJunk, SeedTwin, SeedBadDate}

\* the sequences of at most n different seeds
RECURSIVE SeedSeqs(_)
SeedSeqs(n) ==
    IF n = 0 THEN { << >> }
    ELSE LET shorter == SeedSeqs(n - 1)
         IN shorter \cup { Append(held, seed) : held \in shorter, seed \in Seeds }

\* Array.prototype.sort orders the list as the comparator says when the
\* comparator is consistent; with an Invalid Date, which compares equal to
\* every entry, it is consistent when the other timestamps are all equal
SortDefined(held) ==
    (\E i \in 1..Len(held) : held[i] = SeedBadDate) =>
        \A i, j \in 1..Len(held) :
            (held[i].id # 0 /\ held[j].id # 0
               /\ held[i] # SeedBadDate /\ held[j] # SeedBadDate)
            => held[i].metadata.timestamp = held[j].metadata.timestamp

NoRepeat(held) == \A i, j \in 1..Len(held) : i # j => held[i] # held[j]

Queries == {QuerySession, QueryBadLimit}

(***************************************************************************)
(* Construction                                                            *)
(***************************************************************************)
Configs ==
    [enabled : BOOLEAN, apiKey : {"key", "", Blank}, timeout : {DEFAULT_TIMEOUT}]

\* an initialize that creates the client and leaves isHealthy as it was
ConstructedNotHealthy(cfg, module, t) ==
    LET base == [isEnabled |-> cfg.enabled, isHealthy |-> FALSE,
                 mem0Client |-> "null", failureCount |-> 0,
                 lastFailureTime |-> NoNum, lastSuccessfulOperation |-> NoNum]
    IN IF ~cfg.enabled THEN base
       ELSE IF module = "missing" THEN [base EXCEPT !.isEnabled = FALSE]
       ELSE IF Falsy(cfg.apiKey) \/ TrimEmpty(cfg.apiKey)
            THEN [base EXCEPT !.isEnabled = FALSE]
       ELSE IF module = "throws"
            THEN [base EXCEPT !.isEnabled = FALSE, !.failureCount = 1,
                              !.lastFailureTime = t]
       ELSE [base EXCEPT !.mem0Client = "client", !.lastSuccessfulOperation = t]

\* an initialize that tests the api key without trimming it
ConstructedAcceptsBlankKey(cfg, module, t) ==
    LET base == [isEnabled |-> cfg.enabled, isHealthy |-> FALSE,
                 mem0Client |-> "null", failureCount |-> 0,
                 lastFailureTime |-> NoNum, lastSuccessfulOperation |-> NoNum]
    IN IF ~cfg.enabled THEN base
       ELSE IF module = "missing" THEN [base EXCEPT !.isEnabled = FALSE]
       ELSE IF Falsy(cfg.apiKey) THEN [base EXCEPT !.isEnabled = FALSE]
       ELSE IF module = "throws"
            THEN [base EXCEPT !.isEnabled = FALSE, !.failureCount = 1,
                              !.lastFailureTime = t]
       ELSE [base EXCEPT !.mem0Client = "client", !.isHealthy = TRUE,
                         !.lastSuccessfulOperation = t]

\* a constructor that takes the service as enabled whatever the configuration
ConstructedAlwaysEnabled(cfg, module, t) ==
    LET base == [isEnabled |-> TRUE, isHealthy |-> FALSE,
                 mem0Client |-> "null", failureCount |-> 0,
                 lastFailureTime |-> NoNum, lastSuccessfulOperation |-> NoNum]
    IN IF module = "missing" THEN [base EXCEPT !.isEnabled = FALSE]
       ELSE IF Falsy(cfg.apiKey) \/ TrimEmpty(cfg.apiKey)
            THEN [base EXCEPT !.isEnabled = FALSE]
       ELSE IF module = "throws"
            THEN [base EXCEPT !.isEnabled = FALSE, !.failureCount = 1,
                              !.lastFailureTime = t]
       ELSE [base EXCEPT !.mem0Client = "client", !.isHealthy = TRUE,
                         !.lastSuccessfulOperation = t]

\* the fields after constructor + initialize(), at clock instant t
\* an initialize whose catch block leaves the service enabled
ConstructedEnabledWithoutClient(cfg, module, t) ==
    LET base == [isEnabled |-> cfg.enabled, isHealthy |-> FALSE,
                 mem0Client |-> "null", failureCount |-> 0,
                 lastFailureTime |-> NoNum, lastSuccessfulOperation |-> NoNum]
    IN IF ~cfg.enabled THEN base
       ELSE IF module = "missing" THEN [base EXCEPT !.isEnabled = FALSE]
       ELSE IF Falsy(cfg.apiKey) \/ TrimEmpty(cfg.apiKey)
            THEN [base EXCEPT !.isEnabled = FALSE]
       ELSE IF module = "throws"
            THEN [base EXCEPT !.failureCount = 1, !.lastFailureTime = t]
       ELSE [base EXCEPT !.mem0Client = "client", !.isHealthy = TRUE,
                         !.lastSuccessfulOperation = t]

Constructed(cfg, module, t) ==
    LET base == [isEnabled |-> cfg.enabled, isHealthy |-> FALSE,
                 mem0Client |-> "null", failureCount |-> 0,
                 lastFailureTime |-> NoNum, lastSuccessfulOperation |-> NoNum]
    IN IF ~cfg.enabled THEN base
       ELSE IF module = "missing" THEN [base EXCEPT !.isEnabled = FALSE]
       ELSE IF Falsy(cfg.apiKey) \/ TrimEmpty(cfg.apiKey)
            THEN [base EXCEPT !.isEnabled = FALSE]
       ELSE IF module = "throws"
            \* catch: isHealthy = false, isEnabled = false, recordFailure()
            THEN [base EXCEPT !.isEnabled = FALSE, !.failureCount = 1,
                              !.lastFailureTime = t]
       ELSE [base EXCEPT !.mem0Client = "client", !.isHealthy = TRUE,
                         !.lastSuccessfulOperation = t]

IdleCall ==
    [pc |-> "idle", op |-> "none", entry |-> NoEntry, query |-> NoQuery,
     remote |-> FALSE, backend |-> "none", timer |-> "none", deadline |-> 0,
     outcome |-> "none", via |-> "none", answer |-> "none", result |-> << >>,
     reports |-> 0]

NoObservation ==
    [op |-> "none", sessionId |-> Undefined, outcome |-> "none", mode |-> "none",
     flag |-> FALSE, count |-> 0]

\* the service after construction, no call issued yet
InitService ==
    /\ config \in Configs
    /\ sdk \in {"loaded", "missing", "throws"}
    /\ now = 0
    /\ LET s == Constructed(config, sdk, 0) IN
          /\ mem0Client = s.mem0Client
          /\ isEnabled = s.isEnabled
          /\ isHealthy = s.isHealthy
          /\ failureCount = s.failureCount
          /\ lastFailureTime = s.lastFailureTime
          /\ lastSuccessfulOperation = s.lastSuccessfulOperation
    /\ calls = [c \in Calls |-> IdleCall]
    /\ acked = {}
    /\ streak = 0
    /\ observed = NoObservation
    /\ peak = 0

\* ... against an empty backend
Init == InitService /\ db = << >>

(***************************************************************************)
(* Circuit breaker                                                         *)
(***************************************************************************)
\* the gate with `>=` for `>` in the recovery test
shouldAttemptAtTimeout ==
    IF ~isEnabled THEN [attempt |-> FALSE, failureCount |-> failureCount]
    ELSE IF failureCount < FAILURE_THRESHOLD
         THEN [attempt |-> TRUE, failureCount |-> failureCount]
    ELSE IF lastFailureTime # NoNum /\ now - lastFailureTime >= RECOVERY_TIMEOUT
         THEN [attempt |-> TRUE, failureCount |-> 0]
    ELSE [attempt |-> FALSE, failureCount |-> failureCount]

\* a gate that lets every call of an enabled service through
shouldAttemptWhileOpen ==
    IF ~isEnabled THEN [attempt |-> FALSE, failureCount |-> failureCount]
    ELSE [attempt |-> TRUE, failureCount |-> failureCount]

\* a gate that never looks at the time since the last failure
shouldAttemptNeverProbes ==
    IF ~isEnabled THEN [attempt |-> FALSE, failureCount |-> failureCount]
    ELSE IF failureCount < FAILURE_THRESHOLD
         THEN [attempt |-> TRUE, failureCount |-> failureCount]
    ELSE [attempt |-> FALSE, failureCount |-> failureCount]

\* a gate that admits the probe and leaves the counter where it stands
shouldAttemptKeepsCount ==
    IF ~isEnabled THEN [attempt |-> FALSE, failureCount |-> failureCount]
    ELSE IF failureCount < FAILURE_THRESHOLD
         THEN [attempt |-> TRUE, failureCount |-> failureCount]
    ELSE IF lastFailureTime # NoNum /\ now - lastFailureTime > RECOVERY_TIMEOUT
         THEN [attempt |-> TRUE, failureCount |-> failureCount]
    ELSE [attempt |-> FALSE, failureCount |-> failureCount]

\* a gate that goes by the health flag: an unhealthy service is skipped until
\* the recovery window has elapsed
shouldAttemptWhenHealthy ==
    IF ~isEnabled THEN [attempt |-> FALSE, failureCount |-> failureCount]
    ELSE IF isHealthy
         THEN [attempt |-> TRUE, failureCount |-> failureCount]
    ELSE IF lastFailureTime # NoNum /\ now - lastFailureTime > RECOVERY_TIMEOUT
         THEN [attempt |-> TRUE, failureCount |-> 0]
    ELSE [attempt |-> FALSE, failureCount |-> failureCount]

\* shouldAttemptOperation: what it returns and the failureCount it leaves
shouldAttemptOperation ==
    IF ~isEnabled THEN [attempt |-> FALSE, failureCount |-> failureCount]
    ELSE IF failureCount < FAILURE_THRESHOLD
         THEN [attempt |-> TRUE, failureCount |-> failureCount]
    ELSE IF lastFailureTime # NoNum /\ now - lastFailureTime > RECOVERY_TIMEOUT
         THEN [attempt |-> TRUE, failureCount |-> 0]
    ELSE [attempt |-> FALSE, failureCount |-> failureCount]

\* a recordFailure that counts and never marks the service unhealthy
recordFailureKeepsHealthy(fc) ==
    /\ failureCount' = fc + 1
    /\ lastFailureTime' = now
    /\ streak' = IF streak < FAILURE_THRESHOLD THEN streak + 1 ELSE streak
    /\ UNCHANGED << lastSuccessfulOperation, isHealthy >>

\* recordFailure, on a failureCount of fc
recordFailure(fc) ==
    /\ failureCount' = fc + 1
    /\ lastFailureTime' = now
    /\ isHealthy' = IF fc + 1 >= FAILURE_THRESHOLD THEN FALSE ELSE isHealthy
    /\ streak' = IF streak < FAILURE_THRESHOLD THEN streak + 1 ELSE streak
    /\ UNCHANGED lastSuccessfulOperation

\* a recordSuccess that resets the counter and leaves isHealthy alone
recordSuccessCounterOnly ==
    /\ failureCount' = 0
    /\ lastSuccessfulOperation' = now
    /\ streak' = 0
    /\ UNCHANGED << lastFailureTime, isHealthy >>

\* a recordSuccess that marks the service healthy and keeps the counter
recordSuccessKeepsCount ==
    /\ isHealthy' = TRUE
    /\ lastSuccessfulOperation' = now
    /\ streak' = 0
    /\ UNCHANGED << lastFailureTime, failureCount >>

recordSuccess ==
    /\ failureCount' = 0
    /\ isHealthy' = TRUE
    /\ lastSuccessfulOperation' = now
    /\ streak' = 0
    /\ UNCHANGED lastFailureTime

(***************************************************************************)
(* Health                                                                  *)
(***************************************************************************)
\* an isAvailable that looks at the enabled flag alone
isAvailableWhenEnabled == isEnabled

isAvailable == isEnabled /\ isHealthy

Mode ==
    IF ~isEnabled THEN "disabled"
    ELSE IF ~isHealthy \/ failureCount >= FAILURE_THRESHOLD THEN "degraded"
    ELSE "active"

getHealthStatus ==
    [isAvailable |-> isAvailable, isHealthy |-> isHealthy,
     failureCount |-> failureCount, mode |-> Mode,
     lastSuccessfulOperation |-> lastSuccessfulOperation,
     lastFailure |-> lastFailureTime]

(***************************************************************************)
(* The backend (mem0Client): an opaque store that may answer, fail or stay *)
(* silent                                                                  *)
(***************************************************************************)
\* the entry the backend keeps for an add(memoryData)
Persisted(memoryData, id) ==
    [id |-> id, user_id |-> memoryData.user_id, metadata |-> memoryData.metadata,
     messages |-> memoryData.messages]

RECURSIVE ForUser(_, _)
\* the entries held for user_id, in the backend's order; all when it is not set
ForUser(held, user_id) ==
    IF held = << >> THEN << >>
    ELSE IF user_id = Undefined \/ Head(held).user_id = user_id
         THEN << Head(held) >> \o ForUser(Tail(held), user_id)
         ELSE ForUser(Tail(held), user_id)

\* getAll(mem0Query): the backend honours the limit of the request, or it
\* returns more than asked for
GetAll(held, mem0Query, honour) ==
    LET all == ForUser(held, mem0Query.user_id)
    IN IF honour THEN SliceTo(all, mem0Query.limit) ELSE all

(***************************************************************************)
(* storeLLMCall, up to `await Promise.race(...)`                           *)
(***************************************************************************)
\* the slot of a call that returned before the await
Returned(op, entry, query, via) ==
    [IdleCall EXCEPT !.pc = "done", !.op = op, !.entry = entry, !.query = query,
                     !.outcome = "resolved", !.via = via]

\* the slot of a call suspended in the race
\* a race without the timeout promise: only the backend can settle it
SuspendedWithoutTimer(op, entry, query) ==
    [IdleCall EXCEPT !.pc = "waiting", !.op = op, !.entry = entry,
                     !.query = query, !.remote = TRUE, !.backend = "pending",
                     !.timer = "none", !.deadline = now + config.timeout]

Suspended(op, entry, query) ==
    [IdleCall EXCEPT !.pc = "waiting", !.op = op, !.entry = entry,
                     !.query = query, !.remote = TRUE, !.backend = "pending",
                     !.timer = "armed", !.deadline = now + config.timeout]

\* a synchronous part that records a failure for a call the gate refuses
BeginCountsSkips(c, op, entry, query, valid) ==
    LET gate == shouldAttemptOperation IN
    IF ~gate.attempt
    THEN /\ calls' = [calls EXCEPT ![c] = Returned(op, entry, query, "gate")]
         /\ recordFailure(gate.failureCount)
    ELSE IF ~valid
    THEN /\ calls' = [calls EXCEPT ![c] = Returned(op, entry, query, "validation")]
         /\ failureCount' = gate.failureCount
         /\ UNCHANGED << isHealthy, lastFailureTime, lastSuccessfulOperation,
                         streak >>
    ELSE IF mem0Client = "null"
    THEN /\ calls' = [calls EXCEPT ![c] =
                        [Returned(op, entry, query, "throw") EXCEPT
                            !.timer = "armed", !.deadline = now + config.timeout,
                            !.reports = 1]]
         /\ recordFailure(gate.failureCount)
    ELSE /\ calls' = [calls EXCEPT ![c] = Suspended(op, entry, query)]
         /\ failureCount' = gate.failureCount
         /\ UNCHANGED << isHealthy, lastFailureTime, lastSuccessfulOperation,
                         streak >>

\* the synchronous part of storeLLMCall / retrieveMemory: gate, validation,
\* timer, remote call
Begin(c, op, entry, query, valid) ==
    LET gate == shouldAttemptOperation IN
    IF ~gate.attempt
    THEN /\ calls' = [calls EXCEPT ![c] = Returned(op, entry, query, "gate")]
         /\ UNCHANGED << breaker, streak >>
    ELSE IF ~valid
    THEN /\ calls' = [calls EXCEPT ![c] = Returned(op, entry, query, "validation")]
         /\ failureCount' = gate.failureCount
         /\ UNCHANGED << isHealthy, lastFailureTime, lastSuccessfulOperation,
                         streak >>
    ELSE IF mem0Client = "null"
    \* this.mem0Client.add throws a TypeError after the timer was set: catch
    THEN /\ calls' = [calls EXCEPT ![c] =
                        [Returned(op, entry, query, "throw") EXCEPT
                            !.timer = "armed", !.deadline = now + config.timeout,
                            !.reports = 1]]
         /\ recordFailure(gate.failureCount)
    ELSE /\ calls' = [calls EXCEPT ![c] = Suspended(op, entry, query)]
         /\ failureCount' = gate.failureCount
         /\ UNCHANGED << isHealthy, lastFailureTime, lastSuccessfulOperation,
                         streak >>

\* the remote calls now awaited
InFlight == { d \in Calls : calls[d].pc = "waiting" }

\* the call of slot c, if it was suspended, is counted into the peak
Watermark(c) ==
    peak' = IF calls'[c].pc = "waiting" /\ Cardinality(InFlight) + 1 > peak
            THEN Cardinality(InFlight) + 1 ELSE peak

storeLLMCall(c, entry) ==
    /\ calls[c].pc = "idle"
    /\ Begin(c, "store", entry, NoQuery, validateLLMCallEntry(entry))
    /\ Watermark(c)
    /\ UNCHANGED << config, sdk, mem0Client, isEnabled, now, db, acked, observed >>

retrieveMemory(c, query) ==
    /\ calls[c].pc = "idle"
    /\ Begin(c, "retrieve", NoEntry, query, validateMemoryQuery(query))
    /\ Watermark(c)
    /\ UNCHANGED << config, sdk, mem0Client, isEnabled, now, db, acked, observed >>

(***************************************************************************)
(* The race settles: the backend answers or the timer fires                *)
(***************************************************************************)
\* what the suspended call returns when the backend's promise resolves
\* the list getAll answered the call in slot c with: every entry held for
\* the user ("array"), or the first mem0Query.limit of them ("page")
Answered(call) ==
    GetAll(db, Mem0Query(call.query), call.answer = "page")

Resumed(call, held, honour, isArray) ==
    [call EXCEPT
        !.pc = "done", !.backend = "resolved", !.outcome = "resolved",
        !.via = "backend", !.reports = @ + 1,
        !.answer = IF call.op # "retrieve" THEN "none"
                   ELSE IF ~isArray THEN "other"
                   ELSE IF GetAll(held, Mem0Query(call.query), honour)
                             # GetAll(held, Mem0Query(call.query), FALSE)
                        THEN "page" ELSE "array",
        !.result = IF call.op = "retrieve"
                   THEN RetrieveResult(GetAll(held, Mem0Query(call.query), honour),
                                       isArray, call.query, now)
                   ELSE << >>]

\* a catch block that rethrows: the promise of the call rejects
CaughtRethrows(call, via) ==
    [call EXCEPT !.pc = "done", !.outcome = "rejected", !.via = via,
                 !.reports = @ + 1, !.result = << >>]

\* what the suspended call returns from its catch block
Caught(call, via) ==
    [call EXCEPT !.pc = "done", !.outcome = "resolved", !.via = via,
                 !.reports = @ + 1, !.result = << >>]

\* a resolution that records a success also when the race is already over
BackendResolveLateCounts(c, honour, isArray) ==
    /\ calls[c].backend = "pending"
    /\ db' = IF calls[c].op = "store"
             THEN Append(db, Persisted(MemoryData(calls[c].entry), Len(db) + 1))
             ELSE db
    /\ IF calls[c].pc = "waiting"
       THEN /\ calls' = [calls EXCEPT ![c] = Resumed(calls[c], db, honour, isArray)]
            /\ recordSuccess
            /\ acked' = IF calls[c].op = "store" THEN acked \cup {calls[c].entry}
                        ELSE acked
       ELSE /\ calls' = [calls EXCEPT ![c].backend = "resolved"]
            /\ recordSuccess
            /\ UNCHANGED acked
    /\ UNCHANGED << peak, config, sdk, mem0Client, isEnabled, now, observed >>

\* a resolution that counts a read as failed when entries of the answer were
\* dropped or the answer is no list
BackendResolveCountsDrops(c, honour, isArray) ==
    /\ calls[c].backend = "pending"
    /\ db' = IF calls[c].op = "store"
             THEN Append(db, Persisted(MemoryData(calls[c].entry), Len(db) + 1))
             ELSE db
    /\ IF calls[c].pc = "waiting"
       THEN /\ calls' = [calls EXCEPT ![c] = Resumed(calls[c], db, honour, isArray)]
            /\ IF /\ calls[c].op = "retrieve"
                  /\ \/ ~isArray
                     \/ \E k \in 1..Len(db) : parseMemoryEntry(db[k], now) = << >>
               THEN recordFailure(failureCount) ELSE recordSuccess
            /\ acked' = IF calls[c].op = "store" THEN acked \cup {calls[c].entry}
                        ELSE acked
       ELSE /\ calls' = [calls EXCEPT ![c].backend = "resolved"]
            /\ UNCHANGED << breaker, acked, streak >>
    /\ UNCHANGED << peak, config, sdk, mem0Client, isEnabled, now, observed >>

\* the backend's promise resolves
BackendResolve(c, honour, isArray) ==
    /\ calls[c].backend = "pending"
    /\ db' = IF calls[c].op = "store"
             THEN Append(db, Persisted(MemoryData(calls[c].entry), Len(db) + 1))
             ELSE db
    /\ IF calls[c].pc = "waiting"
       THEN /\ calls' = [calls EXCEPT ![c] = Resumed(calls[c], db, honour, isArray)]
            /\ recordSuccess
            /\ acked' = IF calls[c].op = "store" THEN acked \cup {calls[c].entry}
                        ELSE acked
       \* the race is over: nothing listens any more
       ELSE /\ calls' = [calls EXCEPT ![c].backend = "resolved"]
            /\ UNCHANGED << breaker, acked, streak >>
    /\ UNCHANGED << peak, config, sdk, mem0Client, isEnabled, now, observed >>

\* the backend's promise rejects
BackendReject(c) ==
    /\ calls[c].backend = "pending"
    /\ IF calls[c].pc = "waiting"
       THEN /\ calls' = [calls EXCEPT ![c] = [Caught(calls[c], "error") EXCEPT
                                                !.backend = "rejected"]]
            /\ recordFailure(failureCount)
       ELSE /\ calls' = [calls EXCEPT ![c].backend = "rejected"]
            /\ UNCHANGED << breaker, streak >>
    /\ UNCHANGED << peak, config, sdk, mem0Client, isEnabled, now, db, acked, observed >>

\* a timer whose callback records the failure itself, race settled or not
TimerFireAlwaysRecords(c) ==
    /\ calls[c].timer = "armed"
    /\ now >= calls[c].deadline
    /\ calls' = [calls EXCEPT ![c] =
                    IF calls[c].pc = "waiting"
                    THEN [calls[c] EXCEPT !.pc = "done", !.outcome = "resolved",
                                          !.via = "timeout", !.reports = @ + 1,
                                          !.result = << >>, !.timer = "fired"]
                    ELSE [calls[c] EXCEPT !.timer = "fired"]]
    /\ recordFailure(failureCount)
    /\ UNCHANGED << peak, config, sdk, mem0Client, isEnabled, now, db, acked, observed >>

\* setTimeout(() => reject(...), this.config.timeout) fires; it is never cleared
TimerFire(c) ==
    /\ calls[c].timer = "armed"
    /\ now >= calls[c].deadline
    /\ IF calls[c].pc = "waiting"
       THEN /\ calls' = [calls EXCEPT ![c] = [Caught(calls[c], "timeout") EXCEPT
                                                !.timer = "fired"]]
            /\ recordFailure(failureCount)
       ELSE /\ calls' = [calls EXCEPT ![c].timer = "fired"]
            /\ UNCHANGED << breaker, streak >>
    /\ UNCHANGED << peak, config, sdk, mem0Client, isEnabled, now, db, acked, observed >>

\* the caller takes the settled promise; the slot is free for the next call
Return(c) ==
    /\ calls[c].pc = "done"
    /\ calls' = [calls EXCEPT ![c] = IdleCall]
    /\ UNCHANGED << peak, config, sdk, mem0Client, isEnabled, breaker, now, db, acked,
                    streak, observed >>

\* time passes
Tick(t) ==
    /\ t > now
    /\ now' = t
    /\ UNCHANGED << peak, config, sdk, mem0Client, isEnabled, breaker, calls, db, acked,
                    streak, observed >>

(***************************************************************************)
(* The synchronous and the stubbed operations                              *)
(***************************************************************************)
\* a health check that goes through the gate and so performs its reset
HealthCheckProbes ==
    /\ observed' = [op |-> "health", sessionId |-> Undefined,
                    outcome |-> "returned", mode |-> getHealthStatus.mode,
                    flag |-> getHealthStatus.isAvailable,
                    count |-> getHealthStatus.failureCount]
    /\ failureCount' = shouldAttemptOperation.failureCount
    /\ UNCHANGED << peak, config, sdk, mem0Client, isEnabled, isHealthy, lastFailureTime,
                    lastSuccessfulOperation, now, calls, db, acked, streak >>

\* isAvailable() and getHealthStatus(), read together
HealthCheck ==
    /\ observed' = [op |-> "health", sessionId |-> Undefined,
                    outcome |-> "returned", mode |-> getHealthStatus.mode,
                    flag |-> getHealthStatus.isAvailable,
                    count |-> getHealthStatus.failureCount]
    /\ UNCHANGED << peak, config, sdk, mem0Client, isEnabled, breaker, now, calls, db,
                    acked, streak >>

\* clearSessionMemory: "Implementation will be added in task 6"; returns false
\* a clear that empties the backend
clearEverything(sessionId) ==
    /\ observed' = [op |-> "clear", sessionId |-> sessionId, outcome |-> "resolved",
                    mode |-> "none", flag |-> TRUE, count |-> 0]
    /\ db' = << >>
    /\ UNCHANGED << peak, config, sdk, mem0Client, isEnabled, breaker, now, calls,
                    acked, streak >>

\* stats that throw when the service is not available
getMemoryStatsRejects(sessionId) ==
    /\ observed' = [op |-> "stats", sessionId |-> sessionId,
                    outcome |-> IF isAvailable THEN "resolved" ELSE "rejected",
                    mode |-> "none", flag |-> FALSE, count |-> 0]
    /\ UNCHANGED << peak, config, sdk, mem0Client, isEnabled, breaker, now, calls, db,
                    acked, streak >>

clearSessionMemory(sessionId) ==
    \* return false
    /\ observed' = [op |-> "clear", sessionId |-> sessionId, outcome |-> "resolved",
                    mode |-> "none", flag |-> FALSE, count |-> 0]
    /\ UNCHANGED << peak, config, sdk, mem0Client, isEnabled, breaker, now, calls, db,
                    acked, streak >>

\* getMemoryStats: "Implementation will be added in task 6"; returns zeroes
getMemoryStats(sessionId) ==
    \* return { totalEntries: 0, entriesByStep: {}, averageEntriesPerSession: 0 }
    /\ observed' = [op |-> "stats", sessionId |-> sessionId, outcome |-> "resolved",
                    mode |-> "none", flag |-> FALSE, count |-> 0]
    /\ UNCHANGED << peak, config, sdk, mem0Client, isEnabled, breaker, now, calls, db,
                    acked, streak >>

(***************************************************************************)
(* Specification                                                           *)
(***************************************************************************)
\* store calls whose write the backend has not answered
PendingStores == { c \in Calls : calls[c].op = "store" /\ calls[c].backend = "pending" }

\* the backend has room for one more write
MayStore == Len(db) + Cardinality(PendingStores) < MaxDb

\* a call takes the lowest free slot (the slots are interchangeable)
Free(c) == \A d \in Calls : d < c => calls[d].pc # "idle"

\* Overlapping store and retrieve calls against a backend that may answer, fail
\* or stay silent, while time passes.
Next ==
    \/ \E c \in Calls, entry \in {EntryPlain, EntryEmptyStep} :
          Free(c) /\ MayStore /\ storeLLMCall(c, entry)
    \/ \E c \in Calls, query \in {QuerySession, QueryBadLimit} :
          Free(c) /\ retrieveMemory(c, query)
    \/ \E c \in Calls, honour \in BOOLEAN, isArray \in BOOLEAN :
          BackendResolve(c, honour, isArray)
    \/ \E c \in Calls : BackendReject(c)
    \/ \E c \in Calls : TimerFire(c)
    \/ \E c \in Calls : Return(c)
    \/ \E t \in ClockGrid : Tick(t)

Spec == Init /\ [][Next]_vars

\* One call at a time (each awaited before the next), with the synchronous and
\* the stubbed operations, over every kind of entry.
ApiEntries == {EntryPlain, EntryFull, EntryEmptyStep, EntryIncomplete}
ApiQueries == {QuerySession, QueryBadLimit, [QuerySession EXCEPT !.userId = "U1"]}

ApiNext ==
    \/ \E entry \in ApiEntries : MayStore /\ storeLLMCall(1, entry)
    \/ \E query \in ApiQueries : retrieveMemory(1, query)
    \/ \E honour \in BOOLEAN, isArray \in BOOLEAN : BackendResolve(1, honour, isArray)
    \/ BackendReject(1)
    \/ TimerFire(1)
    \/ Return(1)
    \/ \E t \in ClockGrid : Tick(t)
    \/ HealthCheck
    \/ \E sessionId \in {"S1", "S2"} : clearSessionMemory(sessionId)
    \/ \E sessionId \in {"S1", "S2"} : getMemoryStats(sessionId)

ApiSpec == Init /\ [][ApiNext]_vars

\* The same calls on an event loop that runs: time passes and a timer whose
\* delay has elapsed fires. A call is issued while its deadline is within the
\* sampled clock. The backend is under no obligation to answer.
MayIssue == now + config.timeout <= Horizon

LiveNext ==
    \/ \E entry \in {EntryPlain, EntryEmptyStep} :
          MayIssue /\ MayStore /\ storeLLMCall(1, entry)
    \/ \E query \in {QuerySession, QueryBadLimit} :
          MayIssue /\ retrieveMemory(1, query)
    \/ \E honour \in BOOLEAN, isArray \in BOOLEAN : BackendResolve(1, honour, isArray)
    \/ BackendReject(1)
    \/ TimerFire(1)
    \/ Return(1)
    \/ \E t \in ClockGrid : Tick(t)

LiveSpec ==
    /\ Init /\ [][LiveNext]_vars
    /\ WF_vars(\E t \in ClockGrid : Tick(t))
    /\ WF_vars(TimerFire(1))

\* Calls that keep being issued, one at a time, while time advances: the
\* caller returns from each call and issues valid reads again and again.
RecoverNext ==
    \/ \E entry \in {EntryPlain, EntryEmptyStep} : MayStore /\ storeLLMCall(1, entry)
    \/ \E query \in {QuerySession, QueryBadLimit} : retrieveMemory(1, query)
    \/ \E honour \in BOOLEAN, isArray \in BOOLEAN : BackendResolve(1, honour, isArray)
    \/ BackendReject(1)
    \/ TimerFire(1)
    \/ Return(1)
    \/ \E t \in ClockGrid : Tick(t)

RecoverSpec ==
    /\ Init /\ [][RecoverNext]_vars
    /\ WF_vars(\E t \in ClockGrid : Tick(t))
    /\ WF_vars(Return(1))
    /\ SF_vars(retrieveMemory(1, QuerySession))

\* Reads, one at a time, of a backend that already holds entries, some of them
\* malformed.
SeededInit ==
    /\ InitService
    /\ db \in { held \in SeedSeqs(MaxSeeds) : NoRepeat(held) /\ SortDefined(held) }

ReadQueries ==
    { QuerySession, QueryBadLimit,
      [QuerySession EXCEPT !.limit = 0],
      [QuerySession EXCEPT !.limit = 1],
      [QuerySession EXCEPT !.limit = 1, !.step = "converse"],
      [QuerySession EXCEPT !.offset = 1],
      [QuerySession EXCEPT !.offset = 1, !.limit = 1],
      [QuerySession EXCEPT !.startDate = 100, !.endDate = 100],
      [NoQuery EXCEPT !.workflowType = "wf"] }

ReadNext ==
    \/ \E query \in ReadQueries : retrieveMemory(1, query)
    \/ \E honour \in BOOLEAN, isArray \in BOOLEAN : BackendResolve(1, honour, isArray)
    \/ BackendReject(1)
    \/ TimerFire(1)
    \/ Return(1)
    \/ \E t \in ClockGrid : Tick(t)

ReadSpec == SeededInit /\ [][ReadNext]_vars

\* Calls, one at a time, with arguments that depart from a valid entry, or
\* from the empty query, in at most MaxDeviations fields.
Deviations(record, base) ==
    Cardinality({ field \in DOMAIN base : record[field] # base[field] })

EntryDomain ==
    { entry \in [step : {Undefined, "", Blank, NonString, "converse"},
                 input : {Undefined, "null", "array", NonString, "obj"},
                 output : {Undefined, "null", "array", NonString, "obj"},
                 sessionId : {Undefined, "", Blank, NonString, "S1"},
                 userId : {Undefined, "", Blank, NonString, "U1"},
                 workflowType : {Undefined, "", Blank, NonString, "wf"},
                 timestamp : {NoNum, NaN, 200},
                 metadata : {Undefined, "null", "array", NonString, "obj"}] :
        Deviations(entry, EntryFull) <= MaxDeviations }

QueryDomain ==
    { query \in [sessionId : {Undefined, "", Blank, NonString, "S1"},
                 userId : {Undefined, "", Blank, NonString, "U1"},
                 workflowType : {Undefined, "", Blank, NonString, "wf"},
                 step : {Undefined, "", Blank, NonString, "converse"},
                 limit : {NoNum, Fraction, -1, 0, 1},
                 offset : {NoNum, Fraction, -1, 0, 1},
                 startDate : {NoNum, NaN, 100, 200},
                 endDate : {NoNum, NaN, 100, 200}] :
        Deviations(query, NoQuery) <= MaxDeviations }

ValidateNext ==
    \/ \E entry \in EntryDomain : MayStore /\ storeLLMCall(1, entry)
    \/ \E query \in QueryDomain : retrieveMemory(1, query)
    \/ \E honour \in BOOLEAN, isArray \in BOOLEAN : BackendResolve(1, honour, isArray)
    \/ Return(1)

ValidateSpec == Init /\ [][ValidateNext]_vars

\* Reads of a backend whose answers hold entries in every shape
\* parseMemoryEntry tells apart.
ParseInit ==
    /\ InitService
    /\ db \in { held \in RawSeqs(MaxRaw) : NoRepeat(held) }

ParseNext ==
    \/ \E query \in {NoQuery, QuerySession} : retrieveMemory(1, query)
    \/ \E honour \in BOOLEAN, isArray \in BOOLEAN : BackendResolve(1, honour, isArray)
    \/ BackendReject(1)
    \/ TimerFire(1)
    \/ Return(1)
    \/ \E t \in ClockGrid : Tick(t)

ParseSpec == ParseInit /\ [][ParseNext]_vars

\* A read repeated: the second read, with the query of the first, is issued
\* when the first has returned, and its result is kept beside the first's.
RereadQueries == { NoQuery, QuerySession, [NoQuery EXCEPT !.endDate = DEFAULT_TIMEOUT] }

RereadNext ==
    \/ \E c \in Calls, query \in RereadQueries :
          /\ Free(c) /\ \A d \in Calls : calls[d].pc # "waiting"
          /\ \A d \in Calls : d < c => query = calls[d].query
          /\ retrieveMemory(c, query)
    \/ \E c \in Calls, honour \in BOOLEAN, isArray \in BOOLEAN :
          BackendResolve(c, honour, isArray)
    \/ \E c \in Calls : TimerFire(c)
    \/ \E t \in ClockGrid : Tick(t)

RereadSpec == SeededInit /\ [][RereadNext]_vars

(***************************************************************************)
(* Properties                                                              *)
(***************************************************************************)
\* slot c takes a new call in this step
Issued(c) == calls[c].pc = "idle" /\ calls'[c].pc # "idle"
\* the call of slot c returns in this step
Completes(c) == calls[c].pc # "done" /\ calls'[c].pc = "done"
\* the arguments of the call now in slot c pass validation
ValidArgs(call) ==
    IF call.op = "store" THEN validateLLMCallEntry(call.entry)
    ELSE validateMemoryQuery(call.query)
\* Date.now() - lastFailureTime, once a failure was recorded
SinceLastFailure == now - lastFailureTime

\* C1: the promise of storeLLMCall never rejects, whatever the entry, the
\* state of the service and the outcome of the write; a returned call has
\* resolved.
C1_StoreNeverRejects ==
    \A c \in Calls :
        calls[c].op = "store" =>
            /\ calls[c].outcome # "rejected"
            /\ calls[c].pc = "done" => calls[c].outcome = "resolved"

\* a store that timed out with the write still unanswered has resolved, and
\* another store was skipped by the open circuit
C1_Witness ==
    \E c, d \in Calls :
        /\ calls[c].op = "store" /\ calls[c].via = "timeout"
        /\ calls[c].backend = "pending" /\ calls[c].outcome = "resolved"
        /\ calls[d].op = "store" /\ calls[d].via = "gate"
        /\ isEnabled /\ failureCount >= FAILURE_THRESHOLD

C2_RetrieveEmptyOnFailure ==
    \A c \in Calls :
        calls[c].op = "retrieve" =>
            /\ calls[c].outcome # "rejected"
            /\ calls[c].pc = "done" =>
                 /\ calls[c].outcome = "resolved"
                 /\ calls[c].via \in {"gate", "validation", "throw", "error", "timeout"}
                       => calls[c].result = << >>
                 /\ ( /\ calls[c].via = "backend"
                      /\ \A i \in 1..Len(db) : db[i].id = 0 )
                       => calls[c].result = << >>

\* the backend answered with entries none of which has an id, and the read
\* returned the empty list
C2_Witness ==
    \E c \in Calls :
        /\ calls[c].op = "retrieve" /\ calls[c].via = "backend"
        /\ db # << >> /\ \A i \in 1..Len(db) : db[i].id = 0
        /\ db[1].user_id = QueryUserId(calls[c].query)
        /\ calls[c].result = << >> /\ calls[c].outcome = "resolved"

\* C4: on an enabled service FAILURE_THRESHOLD consecutive failed remote calls
\* leave mode 'degraded'; a remote call that then succeeds (the probe admitted
\* after RECOVERY_TIMEOUT) leaves mode 'active' and failureCount 0.
C4_DegradedThenRecovered ==
    /\ [](isEnabled /\ streak >= FAILURE_THRESHOLD => Mode = "degraded")
    /\ [][ \A c \in Calls :
             (Completes(c) /\ calls'[c].via = "backend") =>
                 /\ getHealthStatus'.mode = "active"
                 /\ getHealthStatus'.failureCount = 0 ]_vars

\* a call was skipped by the open circuit and a later probe succeeded: the
\* service is active again
C4_Witness ==
    \E c, d \in Calls :
        /\ calls[d].via = "gate" /\ isEnabled
        /\ calls[c].via = "backend"
        /\ lastFailureTime # NoNum
        /\ lastSuccessfulOperation - lastFailureTime > RECOVERY_TIMEOUT
        /\ Mode = "active" /\ failureCount = 0

\* C5: with enabled=false in the configuration, isAvailable() is false, the
\* mode is 'disabled' (also as getHealthStatus reports it) and no store or
\* retrieve starts a remote call.
C5_DisabledByConfig ==
    ~config.enabled =>
        /\ ~isAvailable
        /\ getHealthStatus.mode = "disabled"
        /\ observed.op = "health" => (observed.mode = "disabled" /\ ~observed.flag)
        /\ \A c \in Calls : ~calls[c].remote /\ calls[c].backend = "none"

\* a disabled service has returned from a store, and its health was read
C5_Witness ==
    /\ ~config.enabled
    /\ observed.op = "health"
    /\ \E c \in Calls : calls[c].op = "store" /\ calls[c].pc = "done"
                        /\ validateLLMCallEntry(calls[c].entry)

\* C6: a remote call reports to the breaker exactly once, when the race
\* settles (a success resets the counter, an error or a timeout adds one
\* failure); what arrives after the race (a late answer, the timer of an
\* answered call) changes none of the breaker's fields.
C6_ReportedOnce ==
    /\ [](\A c \in Calls :
            calls[c].remote =>
               calls[c].reports = IF calls[c].pc = "done" THEN 1 ELSE 0)
    /\ [][ \A c \in Calls :
             /\ (Completes(c) /\ calls'[c].via \in {"error", "timeout"}) =>
                   /\ failureCount' = failureCount + 1
                   /\ lastFailureTime' = now
                   /\ lastSuccessfulOperation' = lastSuccessfulOperation
             /\ (Completes(c) /\ calls'[c].via = "backend") =>
                   /\ failureCount' = 0 /\ isHealthy'
                   /\ lastSuccessfulOperation' = now
                   /\ lastFailureTime' = lastFailureTime
             /\ ( /\ calls[c].pc = "done" /\ calls'[c].pc = "done"
                  /\ calls'[c] # calls[c] ) => breaker' = breaker ]_vars

\* one call timed out and its answer arrived afterwards; the timer of another,
\* answered call fired afterwards
C6_Witness ==
    \E c, d \in Calls :
        /\ calls[c].via = "timeout" /\ calls[c].backend = "resolved"
        /\ calls[c].reports = 1
        /\ calls[d].via = "backend" /\ calls[d].timer = "fired"
        /\ calls[d].reports = 1

\* C7: a call that started a remote call returns, also when the backend never
\* answers: while it waits its timer is armed for now + config.timeout at the
\* moment of the call, and the timer settles the race.
C7_ReturnsByTimeout ==
    /\ \A c \in Calls : (calls[c].pc = "waiting") ~> (calls[c].pc = "done")
    /\ [](\A c \in Calls :
            calls[c].pc = "waiting" =>
               /\ calls[c].timer = "armed"
               /\ calls[c].deadline <= Horizon)
    /\ [](\A c \in Calls : calls[c].timer = "fired" => calls[c].pc = "done")

\* a call returned on its timer, the backend still silent
C7_Witness ==
    \E c \in Calls :
        /\ calls[c].pc = "done" /\ calls[c].via = "timeout"
        /\ calls[c].backend = "pending" /\ calls[c].outcome = "resolved"
        /\ now = calls[c].deadline

\* C8 (as stated): once storeLLMCall(entry) has seen its write succeed, a
\* retrieveMemory({sessionId: S}) with S the entry's session id, answered by
\* the backend with a list, returns an entry with the stored step, sessionId
\* and workflowType, whether or not the entry carried a userId.
C8_AsStated ==
    [][ \A c \in Calls :
          ( /\ Completes(c) /\ calls[c].op = "retrieve"
            /\ calls'[c].via = "backend" /\ calls'[c].answer = "array"
            /\ calls[c].query = [NoQuery EXCEPT !.sessionId = calls[c].query.sessionId]
            /\ calls[c].query.sessionId # Undefined )
          => \A e \in acked :
               e.sessionId = calls[c].query.sessionId =>
                  \E i \in 1..Len(calls'[c].result) :
                     /\ calls'[c].result[i].step = e.step
                     /\ calls'[c].result[i].sessionId = e.sessionId
                     /\ calls'[c].result[i].workflowType = e.workflowType ]_vars

\* C9 (as stated): a read whose query is valid and has limit L returns at most
\* L entries, none when L is 0.
C9_AsStated ==
    \A c \in Calls :
        ( /\ calls[c].op = "retrieve" /\ calls[c].pc = "done"
          /\ validateMemoryQuery(calls[c].query)
          /\ calls[c].query.limit # NoNum )
        => Len(calls[c].result) <= calls[c].query.limit

\* the list C10 describes: the entries the backend holds for the queried user,
\* normalized, filtered, sorted newest first, then offset, then limit
Paginated(held, query, clock) ==
    LET sorted == SortDesc(ParseAndFilter(ForUser(held, QueryUserId(query)),
                                          query, clock))
        skipped == IF query.offset = NoNum THEN sorted
                   ELSE SliceFrom(sorted, query.offset)
    IN IF query.limit = NoNum THEN skipped ELSE SliceTo(skipped, query.limit)

\* C10 (as stated): a read answered by the backend with a list returns the
\* backend's entries for the queried user normalized, filtered, sorted newest
\* first, less the first offset entries, cut to limit; no limit is applied
\* before the filters. (Stated for a limit that is absent or positive; limit 0
\* is the case of C9.)
C10_AsStated ==
    [][ \A c \in Calls :
          ( /\ Completes(c) /\ calls[c].op = "retrieve"
            /\ calls'[c].via = "backend" /\ calls'[c].answer \in {"array", "page"}
            /\ calls[c].query.limit # 0 )
          => calls'[c].result = Paginated(db, calls[c].query, now) ]_vars

\* C11: a read answered by the backend with a list, whose query has an offset
\* no smaller than the number of answered entries that are normalized and
\* pass the filters, returns the empty list and is recorded as a success.
C11_OffsetPastEnd ==
    [][ \A c \in Calls :
          ( /\ Completes(c) /\ calls[c].op = "retrieve"
            /\ calls'[c].via = "backend" /\ calls'[c].answer \in {"array", "page"}
            /\ calls[c].query.offset # NoNum
            /\ calls[c].query.offset >=
                  Len(ParseAndFilter(Answered(calls'[c]), calls[c].query, now)) )
          => /\ calls'[c].result = << >>
             /\ calls'[c].outcome = "resolved"
             /\ failureCount' = 0 /\ isHealthy'
             /\ lastSuccessfulOperation' = now ]_vars

\* a read with offset 1 was answered with one entry that passes the filters,
\* and returned the empty list
C11_Witness ==
    \E c \in Calls :
        /\ calls[c].op = "retrieve" /\ calls[c].via = "backend"
        /\ calls[c].answer \in {"array", "page"}
        /\ calls[c].query.offset = 1
        /\ Len(ParseAndFilter(Answered(calls[c]), calls[c].query, now)) = 1
        /\ calls[c].result = << >>
        /\ failureCount = 0 /\ isHealthy

\* the filter predicate C12 describes: every provided field of the query
\* equals the entry's, and the entry's timestamp lies within the provided dates
Matches(entry, query) ==
    /\ query.sessionId # Undefined => entry.sessionId = query.sessionId
    /\ query.userId # Undefined => entry.userId = query.userId
    /\ query.workflowType # Undefined => entry.workflowType = query.workflowType
    /\ query.step # Undefined => entry.step = query.step
    /\ query.startDate # NoNum =>
          (entry.timestamp # NaN /\ query.startDate <= entry.timestamp)
    /\ query.endDate # NoNum =>
          (entry.timestamp # NaN /\ entry.timestamp <= query.endDate)

\* C12 (as stated): every entry a read returns matches every provided filter
\* of its query, dates inclusive; and without limit and offset every answered
\* entry that is normalized and matches is returned.
C12_AsStated ==
    [][ \A c \in Calls :
          ( /\ Completes(c) /\ calls[c].op = "retrieve"
            /\ calls'[c].via = "backend" /\ calls'[c].answer \in {"array", "page"} )
          => /\ \A i \in 1..Len(calls'[c].result) :
                   Matches(calls'[c].result[i], calls[c].query)
             /\ (calls[c].query.limit = NoNum /\ calls[c].query.offset = NoNum) =>
                   \A k \in 1..Len(Answered(calls'[c])) :
                      LET parsed == parseMemoryEntry(Answered(calls'[c])[k], now)
                      IN (parsed # << >> /\ Matches(parsed[1], calls[c].query))
                            => \E i \in 1..Len(calls'[c].result) :
                                  calls'[c].result[i] = parsed[1] ]_vars

\* where the entry with this id stands in the backend's list
Position(held, id) == CHOOSE k \in 1..Len(held) : held[k].id = id

\* C13 (as stated): the list a read returns is ordered by timestamp, newest
\* first (each timestamp >= the next one), and entries with equal timestamps
\* stand in the order in which the backend listed them.
C13_AsStated ==
    \A c \in Calls :
        ( /\ calls[c].op = "retrieve" /\ calls[c].pc = "done"
          /\ calls[c].via = "backend" )
        => \A i, j \in 1..Len(calls[c].result) :
              LET a == calls[c].result[i]
                  b == calls[c].result[j]
              IN i < j =>
                   /\ a.timestamp # NaN /\ b.timestamp # NaN
                   /\ a.timestamp >= b.timestamp
                   /\ a.timestamp = b.timestamp =>
                         Position(db, a.id) < Position(db, b.id)

\* the positions of the answered entries that have an id
WithId(held) == { k \in 1..Len(held) : held[k].id # 0 }

\* C14: when the backend answers a read with n entries of which k have no id,
\* and the query has no limit and offset and filters out none of the others,
\* the read returns exactly the n-k normalized entries.
C14_PerEntryIsolation ==
    [][ \A c \in Calls :
          ( /\ Completes(c) /\ calls[c].op = "retrieve"
            /\ calls'[c].via = "backend" /\ calls'[c].answer \in {"array", "page"}
            /\ calls[c].query.limit = NoNum /\ calls[c].query.offset = NoNum
            /\ \A k \in WithId(Answered(calls'[c])) :
                  applyFilters(parseMemoryEntry(Answered(calls'[c])[k], now)[1],
                               calls[c].query) )
          => /\ calls'[c].outcome = "resolved"
             /\ Len(calls'[c].result) = Cardinality(WithId(Answered(calls'[c])))
             /\ \A k \in WithId(Answered(calls'[c])) :
                   \E i \in 1..Len(calls'[c].result) :
                      calls'[c].result[i] =
                         parseMemoryEntry(Answered(calls'[c])[k], now)[1] ]_vars

\* a read was answered with three entries, one of them without id, and
\* returned the other two
C14_Witness ==
    \E c \in Calls :
        /\ calls[c].op = "retrieve" /\ calls[c].via = "backend"
        /\ calls[c].answer = "array"
        /\ Len(Answered(calls[c])) = 3
        /\ Cardinality(WithId(Answered(calls[c]))) = 2
        /\ Len(calls[c].result) = 2
        /\ calls[c].outcome = "resolved"

\* the ids of a returned list, in its order
Ids(result) == [i \in 1..Len(result) |-> result[i].id]

\* C15 (as stated): two reads with the same query, both answered by the
\* backend with every entry it holds for the user, nothing written in
\* between, return the same entries in the same order.
C15_AsStated ==
    \A c, d \in Calls :
        ( /\ c # d
          /\ calls[c].op = "retrieve" /\ calls[d].op = "retrieve"
          /\ calls[c].pc = "done" /\ calls[d].pc = "done"
          /\ calls[c].via = "backend" /\ calls[d].via = "backend"
          /\ calls[c].answer = "array" /\ calls[d].answer = "array"
          /\ calls[c].query = calls[d].query )
        => Ids(calls[c].result) = Ids(calls[d].result)

\* every entry with an id that the backend holds carries a timestamp
AllStamped(held) ==
    \A k \in 1..Len(held) :
        held[k].id # 0 => held[k].metadata.timestamp.kind # "undefined"

\* C15: two reads with the same query, answered by the backend in the same
\* way (both with every entry of the user, or both with the first limit of
\* them), nothing written in between, return the same list, provided every
\* entry the backend holds carries a timestamp.
C15_RereadSame ==
    \A c, d \in Calls :
        ( /\ c # d
          /\ calls[c].op = "retrieve" /\ calls[d].op = "retrieve"
          /\ calls[c].pc = "done" /\ calls[d].pc = "done"
          /\ calls[c].via = "backend" /\ calls[d].via = "backend"
          /\ calls[c].answer = calls[d].answer
          /\ calls[c].query = calls[d].query
          /\ AllStamped(db) )
        => calls[c].result = calls[d].result

\* the same query was answered twice, at different times, with the two
\* entries the backend holds, and both reads returned them
C15_Witness ==
    \E c, d \in Calls :
        /\ c < d
        /\ calls[c].via = "backend" /\ calls[d].via = "backend"
        /\ calls[c].answer = "array" /\ calls[d].answer = "array"
        /\ calls[c].query = calls[d].query
        /\ calls[c].deadline < calls[d].deadline
        /\ AllStamped(db) /\ Len(db) = 2
        /\ Len(calls[c].result) = 2 /\ calls[c].result = calls[d].result

\* C16: getHealthStatus().mode is 'disabled' iff the service is not enabled,
\* 'degraded' iff it is enabled and (unhealthy or failureCount >=
\* FAILURE_THRESHOLD), 'active' otherwise; isAvailable() is (enabled and
\* healthy) and equals getHealthStatus().isAvailable. A health check reports
\* these values.
C16_ModeTable ==
    /\ [] /\ getHealthStatus.mode \in {"disabled", "degraded", "active"}
          /\ getHealthStatus.mode = "disabled" <=> ~isEnabled
          /\ getHealthStatus.mode = "degraded" <=>
                (isEnabled /\ (~isHealthy \/ failureCount >= FAILURE_THRESHOLD))
          /\ getHealthStatus.mode = "active" <=>
                (isEnabled /\ isHealthy /\ failureCount < FAILURE_THRESHOLD)
          /\ isAvailable <=> (isEnabled /\ isHealthy)
          /\ getHealthStatus.isAvailable <=> isAvailable
    /\ [][ (observed' # observed /\ observed'.op = "health") =>
              /\ observed'.flag <=> (isEnabled /\ isHealthy)
              /\ observed'.mode =
                    IF ~isEnabled THEN "disabled"
                    ELSE IF ~isHealthy \/ failureCount >= FAILURE_THRESHOLD
                         THEN "degraded" ELSE "active"
              /\ observed'.count = failureCount ]_vars

\* the health of an enabled service with an open circuit was read
C16_Witness ==
    /\ isEnabled /\ ~isHealthy /\ failureCount >= FAILURE_THRESHOLD
    /\ observed.op = "health" /\ observed.mode = "degraded" /\ ~observed.flag
    /\ observed.count = failureCount

\* C17 (as stated): a store or retrieve whose argument fails validation
\* starts no remote call and leaves failureCount, isHealthy, lastFailureTime
\* and lastSuccessfulOperation as they were, whatever the state of the
\* breaker.
C17_AsStated ==
    [][ \A c \in Calls :
          (Issued(c) /\ ~ValidArgs(calls'[c])) =>
              /\ ~calls'[c].remote
              /\ breaker' = breaker ]_vars

\* the api key of the configuration is a non-blank string
HasApiKey == ~Falsy(config.apiKey) /\ ~TrimEmpty(config.apiKey)

\* C18 (as stated): a service whose configuration is enabled with an api key,
\* and whose backend client could not be created, is in mode 'degraded'.
C18_AsStated ==
    (config.enabled /\ HasApiKey /\ sdk = "throws") =>
        getHealthStatus.mode = "degraded"

\* C19: a service constructed from a valid configuration (enabled, api key,
\* SDK present, client created) is enabled, and until a failure is recorded
\* (so immediately after construction) it is available, its mode is 'active'
\* and failureCount is 0.
C19_ValidConfigActive ==
    (config.enabled /\ HasApiKey /\ sdk = "loaded") =>
        /\ isEnabled /\ mem0Client = "client"
        /\ lastFailureTime = NoNum =>
              /\ isAvailable /\ getHealthStatus.isAvailable
              /\ getHealthStatus.mode = "active"
              /\ getHealthStatus.failureCount = 0

\* right after construction from a valid configuration the health was read:
\* available and active
C19_Witness ==
    /\ config.enabled /\ HasApiKey /\ sdk = "loaded"
    /\ now = 0 /\ \A c \in Calls : calls[c].pc = "idle"
    /\ lastFailureTime = NoNum /\ lastSuccessfulOperation = 0
    /\ observed.op = "health" /\ observed.mode = "active" /\ observed.flag
    /\ observed.count = 0

\* C20: with enabled=true and an api key that is empty or blank, no failure
\* is recorded (failureCount stays 0), the mode is 'disabled' and no store or
\* retrieve starts a remote call.
C20_BlankKeyDisabled ==
    (config.enabled /\ ~HasApiKey) =>
        /\ failureCount = 0 /\ lastFailureTime = NoNum
        /\ ~isAvailable
        /\ getHealthStatus.mode = "disabled"
        /\ observed.op = "health" => (observed.mode = "disabled" /\ observed.count = 0)
        /\ \A c \in Calls : ~calls[c].remote /\ calls[c].backend = "none"

\* a service configured with a blank api key has returned from a valid store,
\* and its health was read
C20_Witness ==
    /\ config.enabled /\ config.apiKey = Blank /\ sdk = "loaded"
    /\ observed.op = "health" /\ observed.mode = "disabled"
    /\ \E c \in Calls : /\ calls[c].op = "store" /\ calls[c].pc = "done"
                        /\ calls[c].via = "gate"
                        /\ validateLLMCallEntry(calls[c].entry)

\* the entries the backend holds whose session is sessionId
OfSession(held, sessionId) ==
    { k \in 1..Len(held) : held[k].metadata.sessionId = sessionId }

\* C21 (as stated): when clearSessionMemory(S) has completed on an available
\* service, the backend holds no entry of session S.
C21_AsStated ==
    [][ (observed' # observed /\ observed'.op = "clear" /\ isAvailable) =>
            OfSession(db', observed'.sessionId) = {} ]_vars

\* C22: clearSessionMemory(S) removes from the backend no entry whose session
\* is not S.
C22_NoCrossSessionDeletion ==
    [][ (observed' # observed /\ observed'.op = "clear") =>
            \A k \in 1..Len(db) :
               db[k].metadata.sessionId # observed'.sessionId =>
                  \E j \in 1..Len(db') : db'[j] = db[k] ]_vars

\* clearSessionMemory('S2') has returned, and the backend holds an entry of
\* session S1
C22_Witness ==
    /\ observed.op = "clear" /\ observed.sessionId = "S2"
    /\ observed.outcome = "resolved"
    /\ OfSession(db, "S1") # {}

\* C23: clearSessionMemory and getMemoryStats resolve, never reject; a clear
\* that removed nothing resolves to false, and the stats of a service that is
\* not available are zeroed.
C23_ClearAndStatsResolve ==
    /\ [](observed.op \in {"clear", "stats"} => observed.outcome = "resolved")
    /\ [][ (observed' # observed /\ observed'.op = "clear" /\ db' = db) =>
              ~observed'.flag ]_vars
    /\ [][ (observed' # observed /\ observed'.op = "stats" /\ ~isAvailable) =>
              observed'.count = 0 ]_vars

\* the stats of a service with an open circuit were read
C23_Witness ==
    /\ observed.op = "stats" /\ observed.outcome = "resolved"
    /\ observed.count = 0
    /\ isEnabled /\ ~isHealthy /\ failureCount >= FAILURE_THRESHOLD

\* C24 (as stated): getMemoryStats(S) on an available service returns
\* totalEntries equal to the number of entries the backend holds of session S.
C24_AsStated ==
    [][ (observed' # observed /\ observed'.op = "stats" /\ isAvailable) =>
            observed'.count = Cardinality(OfSession(db, observed'.sessionId)) ]_vars

\* the strings of the inputs that are neither empty nor whitespace-only
NonBlankStrings == {"S1", "S2", "U1", "wf", "summarize", "converse"}

\* the entries C25 describes as valid
WellFormedEntry(entry) ==
    /\ entry.step \in NonBlankStrings
    /\ entry.sessionId \in NonBlankStrings
    /\ entry.input = "obj" /\ entry.output = "obj"
    /\ entry.timestamp >= 0
    /\ entry.userId = Undefined \/ entry.userId \in NonBlankStrings
    /\ entry.workflowType = Undefined \/ entry.workflowType \in NonBlankStrings
    /\ entry.metadata = Undefined \/ entry.metadata = "obj"

\* C25: a store admitted by the gate stops at validation iff its entry is not
\* well formed: step and sessionId non-blank strings, input and output maps,
\* timestamp a valid instant, each optional field absent or well formed. A
\* store that stops there changes neither the backend nor the entry.
C25_EntryValidation ==
    [][ \A c \in Calls :
          (Issued(c) /\ calls'[c].op = "store" /\ shouldAttemptOperation.attempt) =>
              /\ validateLLMCallEntry(calls'[c].entry)
                     <=> WellFormedEntry(calls'[c].entry)
              /\ calls'[c].via = "validation" <=> ~WellFormedEntry(calls'[c].entry)
              /\ calls'[c].via = "validation" =>
                     (db' = db /\ ~calls'[c].remote /\ acked' = acked) ]_vars

\* a store of an entry without input stopped at validation
C25_Witness ==
    \E c \in Calls :
        /\ calls[c].op = "store" /\ calls[c].via = "validation"
        /\ calls[c].entry = [EntryFull EXCEPT !.input = Undefined]
        /\ ~calls[c].remote

\* the string filters of a query
StringFilters(query) ==
    {query.sessionId, query.userId, query.workflowType, query.step}

\* the queries C26 describes as rejected
StatedRejected(query) ==
    \/ query.limit # NoNum /\ (query.limit < 0 \/ query.limit = Fraction)
    \/ query.offset # NoNum /\ (query.offset < 0 \/ query.offset = Fraction)
    \/ query.startDate >= 0 /\ query.endDate >= 0 /\ query.startDate > query.endDate
    \/ query.startDate = NaN \/ query.endDate = NaN
    \/ \E v \in StringFilters(query) : v \in {"", Blank}

\* C26 as stated: a read admitted by the gate stops at validation iff its
\* limit or offset is negative or no integer, its dates are inverted, one of
\* its dates is invalid, or one of its string filters is empty or
\* whitespace-only.
C26_AsStated ==
    [][ \A c \in Calls :
          (Issued(c) /\ calls'[c].op = "retrieve" /\ shouldAttemptOperation.attempt) =>
              (calls'[c].via = "validation" <=> StatedRejected(calls'[c].query)) ]_vars

\* the same with a provided filter that is no string (a number, null) rejected
RejectedQuery(query) ==
    \/ query.limit # NoNum /\ (query.limit < 0 \/ query.limit = Fraction)
    \/ query.offset # NoNum /\ (query.offset < 0 \/ query.offset = Fraction)
    \/ query.startDate >= 0 /\ query.endDate >= 0 /\ query.startDate > query.endDate
    \/ query.startDate = NaN \/ query.endDate = NaN
    \/ \E v \in StringFilters(query) : v # Undefined /\ v \notin NonBlankStrings

\* C26: a read admitted by the gate stops at validation iff its limit or
\* offset is negative or no integer, its dates are inverted, one of its dates
\* is invalid, or one of its provided string filters is not a string, is empty
\* or is whitespace-only; the empty query and limit 0 and offset 0 pass.
C26_QueryValidation ==
    [][ \A c \in Calls :
          (Issued(c) /\ calls'[c].op = "retrieve" /\ shouldAttemptOperation.attempt) =>
              /\ validateMemoryQuery(calls'[c].query) <=> ~RejectedQuery(calls'[c].query)
              /\ calls'[c].via = "validation" <=> RejectedQuery(calls'[c].query)
              /\ calls'[c].query \in
                    {NoQuery, [NoQuery EXCEPT !.limit = 0, !.offset = 0]}
                    => calls'[c].remote
              /\ calls'[c].via = "validation" => (db' = db /\ ~calls'[c].remote) ]_vars

\* a read with limit 0 and offset 0 passed validation and was answered
C26_Witness ==
    \E c \in Calls :
        /\ calls[c].op = "retrieve" /\ calls[c].via = "backend"
        /\ calls[c].query = [NoQuery EXCEPT !.limit = 0, !.offset = 0]

\* the call of slot c returns in this step with a failed remote call
Fails(c) == Completes(c) /\ calls'[c].via \in {"error", "timeout"}

\* C27: a call admitted because more than RECOVERY_TIMEOUT has elapsed finds
\* failureCount reset to 0 before its remote call is made; a remote call that
\* fails adds one to the counter (a failed probe leaves it at 1); and while
\* the counter is below FAILURE_THRESHOLD every valid call is attempted,
\* however recent the last failure and whatever the health flag.
C27_FailedProbeRestartsCount ==
    /\ [][ \A c \in Calls :
             ( /\ Issued(c) /\ isEnabled /\ failureCount >= FAILURE_THRESHOLD
               /\ lastFailureTime # NoNum /\ SinceLastFailure > RECOVERY_TIMEOUT
               /\ ValidArgs(calls'[c]) ) =>
                  calls'[c].remote /\ failureCount' = 0 ]_vars
    /\ [][ \A c \in Calls : Fails(c) => failureCount' = failureCount + 1 ]_vars
    /\ [][ \A c \in Calls :
             ( /\ Issued(c) /\ isEnabled /\ failureCount < FAILURE_THRESHOLD
               /\ ValidArgs(calls'[c]) ) => calls'[c].remote ]_vars

\* the circuit opened, the probe failed (counter at 1, service still
\* unhealthy) and a call issued within the window of that failure is in flight
C27_Witness ==
    \E c \in Calls :
        /\ calls[c].pc = "waiting" /\ calls[c].remote
        /\ isEnabled /\ ~isHealthy /\ streak >= FAILURE_THRESHOLD
        /\ failureCount = 1
        /\ lastFailureTime # NoNum /\ SinceLastFailure <= RECOVERY_TIMEOUT

\* C28 as stated: in a state of mode 'degraded' with no more than
\* RECOVERY_TIMEOUT elapsed since the last recorded failure, a store or
\* retrieve that is issued starts no remote call.
C28_AsStated ==
    [][ \A c \in Calls :
          ( /\ Issued(c) /\ getHealthStatus.mode = "degraded"
            /\ lastFailureTime # NoNum /\ SinceLastFailure <= RECOVERY_TIMEOUT ) =>
               ~calls'[c].remote ]_vars

\* C28 amended: in such a state the call is skipped while failureCount stands
\* at FAILURE_THRESHOLD or more; once a probe has reset the counter the mode
\* is still 'degraded' and a valid call is attempted.
C28_DegradedSkipsWhileOpen ==
    [][ \A c \in Calls :
          ( /\ Issued(c) /\ getHealthStatus.mode = "degraded"
            /\ lastFailureTime # NoNum /\ SinceLastFailure <= RECOVERY_TIMEOUT ) =>
               IF getHealthStatus.failureCount >= FAILURE_THRESHOLD
               THEN ~calls'[c].remote /\ calls'[c].via = "gate"
               ELSE ValidArgs(calls'[c]) => calls'[c].remote ]_vars

\* a retrieve was skipped in degraded mode with the counter at the threshold
\* and the window not elapsed
C28_Witness ==
    \E c \in Calls :
        /\ calls[c].op = "retrieve" /\ calls[c].via = "gate" /\ ~calls[c].remote
        /\ getHealthStatus.mode = "degraded"
        /\ failureCount = FAILURE_THRESHOLD
        /\ lastFailureTime # NoNum /\ SinceLastFailure <= RECOVERY_TIMEOUT
        /\ now > lastFailureTime

\* C29: a call the gate refuses (service disabled, or circuit open with the
\* recovery window not elapsed) starts no remote call and leaves failureCount,
\* lastFailureTime, isHealthy and lastSuccessfulOperation as they were.
C29_SkipNotCounted ==
    [][ \A c \in Calls :
          Issued(c) =>
            /\ calls'[c].via = "gate" <=>
                  \/ ~isEnabled
                  \/ /\ failureCount >= FAILURE_THRESHOLD
                     /\ lastFailureTime # NoNum => SinceLastFailure <= RECOVERY_TIMEOUT
            /\ calls'[c].via = "gate" =>
                  /\ ~calls'[c].remote
                  /\ failureCount' = failureCount
                  /\ lastFailureTime' = lastFailureTime
                  /\ isHealthy' = isHealthy
                  /\ lastSuccessfulOperation' = lastSuccessfulOperation ]_vars

\* two calls were refused by the open circuit, the later one some time after
\* the fifth failure, and the failure time is still that of the fifth failure
C29_Witness ==
    \E c, d \in Calls :
        /\ c # d /\ calls[c].via = "gate" /\ calls[d].via = "gate"
        /\ isEnabled /\ failureCount = FAILURE_THRESHOLD /\ ~isHealthy
        /\ lastFailureTime # NoNum /\ now > lastFailureTime
        /\ SinceLastFailure <= RECOVERY_TIMEOUT

\* C30: a remote call that succeeds sets failureCount to 0 and isHealthy to
\* true and records lastSuccessfulOperation; an active service stays active
\* while fewer than FAILURE_THRESHOLD failures have been recorded since the
\* last success, and attempts every valid call.
C30_OnlyConsecutiveFailuresOpen ==
    /\ [][ \A c \in Calls :
             (Completes(c) /\ calls'[c].via = "backend") =>
                 /\ failureCount' = 0 /\ isHealthy'
                 /\ lastSuccessfulOperation' = now ]_vars
    /\ [][ (getHealthStatus.mode = "active" /\ streak' < FAILURE_THRESHOLD) =>
               getHealthStatus'.mode = "active" ]_vars
    /\ [][ \A c \in Calls :
             ( /\ Issued(c) /\ getHealthStatus.mode = "active"
               /\ streak < FAILURE_THRESHOLD /\ ValidArgs(calls'[c]) ) =>
                  calls'[c].remote ]_vars

\* a remote call failed, a later one succeeded: the counter is back at 0 and
\* the service, with a failure on record, is active
C30_Witness ==
    \E c, d \in Calls :
        /\ calls[c].via \in {"error", "timeout"} /\ calls[d].via = "backend"
        /\ lastFailureTime # NoNum /\ lastSuccessfulOperation # NoNum
        /\ lastSuccessfulOperation > lastFailureTime
        /\ failureCount = 0 /\ streak = 0
        /\ getHealthStatus.mode = "active"

\* C31: isAvailable() and getHealthStatus() change none of failureCount,
\* isHealthy, lastFailureTime, lastSuccessfulOperation and the enabled flag,
\* and start no remote call; the recovery reset is not theirs, and the
\* passage of time alone changes neither the mode nor the availability.
C31_PureObservations ==
    /\ [][ (observed'.op = "health" /\ calls' = calls /\ now' = now) =>
               /\ failureCount' = failureCount /\ isHealthy' = isHealthy
               /\ lastFailureTime' = lastFailureTime
               /\ lastSuccessfulOperation' = lastSuccessfulOperation
               /\ isEnabled' = isEnabled /\ db' = db ]_vars
    /\ [][ now' # now =>
               /\ getHealthStatus' = getHealthStatus
               /\ isAvailable' = isAvailable ]_vars

\* the health of an open circuit was read after the recovery window had
\* elapsed: the counter stands where it stood and the mode is 'degraded'
C31_Witness ==
    /\ observed.op = "health" /\ observed.mode = "degraded"
    /\ observed.count >= FAILURE_THRESHOLD
    /\ isEnabled /\ failureCount = observed.count
    /\ lastFailureTime # NoNum /\ SinceLastFailure > RECOVERY_TIMEOUT
    /\ getHealthStatus.mode = "degraded"

\* the entries of an answer that normalization drops
Dropped(held) == { k \in 1..Len(held) : parseMemoryEntry(held[k], now) = << >> }

\* C32: a read whose remote call succeeds is recorded as a success
\* (failureCount 0, healthy, lastSuccessfulOperation set) also when entries of
\* the answer are dropped by normalization or the answer is no list; it then
\* returns the entries that are left, none when all are dropped or the answer
\* is no list. A remote call that fails is counted.
C32_ParseFailuresNotCounted ==
    [][ \A c \in Calls :
          (Completes(c) /\ calls[c].op = "retrieve") =>
             /\ calls'[c].via = "backend" =>
                   /\ failureCount' = 0 /\ isHealthy'
                   /\ lastSuccessfulOperation' = now
                   /\ lastFailureTime' = lastFailureTime
                   /\ calls'[c].outcome = "resolved"
                   /\ calls'[c].answer = "other" => calls'[c].result = << >>
                   /\ calls'[c].answer # "other" =>
                         Len(calls'[c].result) <=
                            Len(Answered(calls'[c]))
                               - Cardinality(Dropped(Answered(calls'[c])))
             /\ calls'[c].via = "error" => failureCount' = failureCount + 1 ]_vars

\* after a failed read, a read was answered with two entries, one with a null
\* message and one without id: it returned nothing and counts as a success
C32_Witness ==
    \E c \in Calls :
        /\ calls[c].op = "retrieve" /\ calls[c].via = "backend"
        /\ calls[c].answer = "array"
        /\ Len(Answered(calls[c])) = 2
        /\ Cardinality(Dropped(Answered(calls[c]))) = 2
        /\ \E k \in 1..2 : Answered(calls[c])[k] = SeedThrows
        /\ calls[c].result = << >>
        /\ lastFailureTime # NoNum /\ failureCount = 0 /\ isHealthy
        /\ lastSuccessfulOperation = now

\* the raw entry has a message of this role whose content is not JSON
Unparsable(raw, role) ==
    \E i \in 1..Len(raw.messages) :
        raw.messages[i].role = role /\ raw.messages[i].content.kind = "junk"

\* the raw entry carries no timestamp, in its metadata or in its user message
Unstamped(raw) ==
    /\ raw.metadata.timestamp.kind = "undefined"
    /\ \A i \in 1..Len(raw.messages) :
          raw.messages[i].role = "user" =>
             raw.messages[i].content.user.timestamp.kind = "undefined"

\* C33: of the answer to an unfiltered read, normalization drops exactly the
\* entries that are missing, have no id or make it throw; an entry with id
\* whose user (assistant) content is not JSON is returned with that content
\* under 'content' of its input (output), and an entry without timestamp is
\* returned with the time of the read.
C33_NormalizationFallback ==
    [][ \A c \in Calls :
          ( /\ Completes(c) /\ calls[c].op = "retrieve" /\ calls[c].query = NoQuery
            /\ calls'[c].via = "backend" /\ calls'[c].answer \in {"array", "page"} ) =>
             \A k \in 1..Len(Answered(calls'[c])) :
                LET raw == Answered(calls'[c])[k]
                    kept == { i \in 1..Len(calls'[c].result) :
                                 calls'[c].result[i].id = raw.id }
                IN /\ (raw.id = 0 \/ MessagesThrow(raw.messages)) <=> kept = {}
                   /\ \A i \in kept :
                        /\ Unparsable(raw, "user") =>
                              calls'[c].result[i].input = "{content}"
                        /\ Unparsable(raw, "assistant") =>
                              calls'[c].result[i].output = "{content}"
                        /\ Unstamped(raw) => calls'[c].result[i].timestamp = now ]_vars

\* a read some time after construction returned the entry whose user message
\* is not JSON, stamped with the time of the read, and not the null beside it
C33_Witness ==
    \E c \in Calls :
        /\ calls[c].op = "retrieve" /\ calls[c].via = "backend"
        /\ calls[c].query = NoQuery /\ now > 0
        /\ db = << SeedNull, SeedHalf >>
        /\ Len(calls[c].result) = 1
        /\ calls[c].result[1].id = SeedHalf.id
        /\ calls[c].result[1].input = "{content}"
        /\ calls[c].result[1].output = "obj"
        /\ calls[c].result[1].timestamp = now

\* the call of slot c returns in this step with the backend's answer
Succeeds(c) == Completes(c) /\ calls'[c].via = "backend"

\* C34 as stated: once failureCount has reached FAILURE_THRESHOLD it stays
\* there, and the mode stays 'degraded', until a call is issued more than
\* RECOVERY_TIMEOUT after the last recorded failure, whatever the calls in
\* flight do.
C34_AsStated ==
    [][ (isEnabled /\ failureCount >= FAILURE_THRESHOLD) =>
           \/ failureCount' >= FAILURE_THRESHOLD /\ getHealthStatus'.mode = "degraded"
           \/ \E c \in Calls : Issued(c) /\ SinceLastFailure > RECOVERY_TIMEOUT ]_vars

\* C34 amended: an open circuit stays open until a call is issued more than
\* RECOVERY_TIMEOUT after the last recorded failure or a call in flight
\* returns with the backend's answer, which sets the counter to 0 and the
\* mode to 'active' at once; a call in flight that fails adds to the counter
\* and moves the time of the last failure. The mode leaves 'degraded' only
\* by a successful call.
C34_OpenUntilProbeOrSuccess ==
    /\ [][ (isEnabled /\ failureCount >= FAILURE_THRESHOLD) =>
              \/ failureCount' >= FAILURE_THRESHOLD
                    /\ getHealthStatus'.mode = "degraded"
              \/ \E c \in Calls :
                    /\ Issued(c) /\ SinceLastFailure > RECOVERY_TIMEOUT
                    /\ failureCount' = 0 /\ getHealthStatus'.mode = "degraded"
              \/ \E c \in Calls :
                    /\ Succeeds(c) /\ calls[c].pc = "waiting"
                    /\ failureCount' = 0 /\ getHealthStatus'.mode = "active" ]_vars
    /\ [][ \A c \in Calls :
              (Fails(c) /\ isEnabled /\ failureCount >= FAILURE_THRESHOLD) =>
                  /\ failureCount' = failureCount + 1
                  /\ lastFailureTime' = now ]_vars
    /\ [][ getHealthStatus.mode = "degraded" =>
              \/ getHealthStatus'.mode = "degraded"
              \/ \E c \in Calls : Succeeds(c) ]_vars

\* a call admitted before the circuit opened failed after it had opened, some
\* time after the fifth failure: the counter stands past the threshold
C34_Witness ==
    \E c \in Calls :
        /\ calls[c].via \in {"error", "timeout"}
        /\ isEnabled /\ failureCount = FAILURE_THRESHOLD + 1
        /\ lastFailureTime = now /\ now > 0
        /\ getHealthStatus.mode = "degraded"

\* the circuit is open and the clock can still be sampled after its window
OpenCircuit ==
    /\ isEnabled /\ failureCount >= FAILURE_THRESHOLD
    /\ lastFailureTime # NoNum /\ lastFailureTime + RECOVERY_TIMEOUT < Horizon

\* a call has started its remote call
Admitted == \E c \in Calls : calls[c].pc = "waiting" /\ calls[c].remote

\* C35: on an enabled service with an open circuit, with valid calls issued
\* again and again while time advances, a call is eventually admitted and
\* starts a remote call; lastFailureTime is defined whenever failureCount >= 1
\* and a skipped call does not move it.
C35_RecoveryIsAutomatic ==
    /\ OpenCircuit ~> Admitted
    /\ [](failureCount >= 1 => lastFailureTime # NoNum)
    /\ [][ \A c \in Calls :
             (Issued(c) /\ calls'[c].via = "gate") =>
                 lastFailureTime' = lastFailureTime ]_vars

\* the first read issued after the recovery window of an open circuit is in
\* flight, a window and a slice after the fifth failure
C35_Witness ==
    /\ calls[1].pc = "waiting" /\ calls[1].remote /\ calls[1].op = "retrieve"
    /\ isEnabled /\ ~isHealthy /\ streak >= FAILURE_THRESHOLD /\ failureCount = 0
    /\ lastFailureTime # NoNum
    /\ now = lastFailureTime + RECOVERY_TIMEOUT + DEFAULT_TIMEOUT

C37_OpenImpliesUnhealthy ==
    /\ failureCount >= FAILURE_THRESHOLD => ~isHealthy
    /\ getHealthStatus.mode = "active" <=> isAvailable
    /\ getHealthStatus.mode = "active" <=> getHealthStatus.isAvailable

\* two calls were in flight together; one failed as the fifth failure and the
\* other is still awaited: the service is unhealthy and not available
C37_Witness ==
    \E c, d \in Calls :
        /\ calls[c].pc = "waiting" /\ calls[d].via \in {"error", "timeout"}
        /\ peak = 2 /\ failureCount = FAILURE_THRESHOLD
        /\ ~isHealthy /\ ~isAvailable /\ getHealthStatus.mode = "degraded"

\* C38: no store, retrieve, clear, stats or health call changes isEnabled;
\* an enabled service has its backend client, and a call that went to the
\* backend found the client (none ended in the TypeError of a call on null).
C38_EnabledFixed ==
    /\ [][isEnabled' = isEnabled]_vars
    /\ [](isEnabled => mem0Client = "client")
    /\ [](\A c \in Calls :
            /\ calls[c].remote => (isEnabled /\ mem0Client = "client")
            /\ calls[c].via # "throw"
            /\ ~isEnabled => ~calls[c].remote)

\* a service enabled by its configuration and disabled by a failed
\* initialization refused a call, cleared a session and is disabled still
C38_Witness ==
    /\ config.enabled /\ ~isEnabled /\ mem0Client = "null" /\ failureCount = 1
    /\ calls[1].pc = "done" /\ calls[1].via = "gate"
    /\ observed.op = "clear"

====
